---- MODULE Spec2Model ----
(***************************************************************************)
(* Model of the WhatsApp AI sales agent: the inbound message handler, the  *)
(* payment and handoff handlers, the admin routes and the Supabase store   *)
(* they share.  Every awaited store call or transport call of a handler is *)
(* one step of the task that runs it, so concurrently handled webhooks and *)
(* admin requests interleave at exactly the points where the JavaScript    *)
(* tasks can.                                                              *)
(*                                                                         *)
(* Texts are sequences of word tokens.  Confidences are in hundredths.     *)
(* In Spec and SpecConcurrent the store answers every statement (a         *)
(* statement fails only on a UNIQUE violation); SpecFaults lets the        *)
(* throwing inserts of the store, the spreadsheet, the notification of the *)
(* operator and the generation providers fail.  wahaService.sendText never *)
(* throws and its result is ignored by every caller, so a send is recorded *)
(* as the call that was made; the spreadsheet mirror never throws and      *)
(* holds no state the handlers read.  SpecPayments starts from a pending   *)
(* payment and handles the operator's decisions concurrently, with updates *)
(* the store may refuse; SpecHistory starts from a conversation that holds *)
(* earlier exchanges.  SpecClassify and SpecCalls apply the classifier on  *)
(* its own, with the lastIndex of its compiled patterns as the only state  *)
(* a call could leave behind.                                              *)
(***************************************************************************)
EXTENDS Integers, Sequences, FiniteSets, TLC

VARIABLES
    now,            \* wall clock (Date.now() / NOW()), in window units
    conversations,  \* table conversations : sequence of rows
    messages,       \* table messages      : sequence of rows (append only)
    payments,       \* table payments      : sequence of rows
    handoff_queue,  \* table handoff_queue : sequence of rows
    rate_limits,    \* table rate_limits   : chat_id -> row or NULL
    task,           \* the asynchronous tasks: position, locals, sends, result
    ops,            \* number of requests accepted so far
    lastIndex       \* RegExp.lastIndex of every compiled pattern of the classifier

vars == <<now, conversations, messages, payments, handoff_queue, rate_limits, task, ops,
          lastIndex>>

store == <<conversations, messages, payments, handoff_queue, rate_limits>>

(***************************************************************************)
(* Bounds of the model                                                     *)
(***************************************************************************)
NumTasks == 2
MaxOps == 3
MaxConcurrentOps == 3
MaxTime == 2
windowMs == 1
maxRequests == 2

Tasks == 1..NumTasks

NULL == [nil |-> TRUE]

(***************************************************************************)
(* Identifiers                                                             *)
(***************************************************************************)
ADMIN_PHONE == "923001234567"
ADMIN_CHAT == "923001234567@c.us"
CUSTOMER_PHONE == "c1"
CUSTOMER_CHAT == "c1@c.us"
GROUP_CHAT == "g1@g.us"

ChatIds == {CUSTOMER_CHAT, ADMIN_CHAT}

\* chatId.includes('@')
includesAt(s) == s \in {CUSTOMER_CHAT, ADMIN_CHAT, GROUP_CHAT, "status@broadcast"}

\* `${chatId}@c.us`
appendCus(s) ==
    CASE s = CUSTOMER_PHONE -> CUSTOMER_CHAT
      [] s = ADMIN_PHONE -> ADMIN_CHAT
      [] OTHER -> "unknown@c.us"

extractPhoneNumber(chatId) ==
    CASE chatId = CUSTOMER_CHAT -> CUSTOMER_PHONE
      [] chatId = ADMIN_CHAT -> ADMIN_PHONE
      [] OTHER -> chatId

isGroupChat(chatId) == chatId = GROUP_CHAT

(***************************************************************************)
(* Intent classifier (utils/intent.classifier)                             *)
(***************************************************************************)
INTENTS == <<"GREETING", "SERVICE_INQUIRY", "PRICING_INQUIRY", "PAYMENT_CONFIRMATION",
             "PAYMENT_INQUIRY", "ORDER_INTENT", "HUMAN_REQUEST", "FAQ", "FRUSTRATION",
             "CONFIRMATION", "REJECTION", "OUT_OF_SCOPE", "GENERAL_CHAT">>

\* Object.entries(PATTERNS): the order in which the keys were inserted
PatternOrder == <<"GREETING", "SERVICE_INQUIRY", "PRICING_INQUIRY", "PAYMENT_CONFIRMATION",
                  "PAYMENT_INQUIRY", "ORDER_INTENT", "HUMAN_REQUEST", "FRUSTRATION",
                  "CONFIRMATION", "REJECTION", "FAQ">>

\* knowledge-base.json wordlists and catalog
human_handoff_triggers == {<<"agent">>, <<"human">>, <<"talk", "to", "human">>}
frustration_indicators == {<<"useless">>, <<"not", "working">>}
services == <<[id |-> "basic", name |-> <<"basic", "package">>],
              [id |-> "premium", name |-> <<"premium", "package">>],
              [id |-> "logo", name |-> <<"logo", "design">>]>>

\* the phrase occurs in the text on word boundaries: /\bphrase\b/
Contains(text, phrase) ==
    \E i \in 1..(Len(text) - Len(phrase) + 1) :
        SubSeq(text, i, i + Len(phrase) - 1) = phrase

\* a run of fifteen exclamation marks written right after a word
Bangs == "!!!!!!!!!!!!!!!"

RECURSIVE stripTrailing(_, _)
\* the text without the trailing tokens that are in trail
stripTrailing(text, trail) ==
    IF Len(text) > 0 /\ text[Len(text)] \in trail
    THEN stripTrailing(SubSeq(text, 1, Len(text) - 1), trail)
    ELSE text

\* one compiled pattern: anchored (^...[trail]*$) or searched anywhere
PatternTest(p, text) ==
    IF p.anchored THEN stripTrailing(text, p.trail) \in p.phrases
    ELSE \E ph \in p.phrases : Contains(text, ph)

\* RegExp.prototype.test on the pattern object whose lastIndex is li (counted in
\* words): without the flag g the search starts at 0 and lastIndex stays; with it the
\* search starts at lastIndex, which becomes the end of the match, or 0 on failure
testAt(p, li, text) ==
    IF ~p.global THEN [matched |-> PatternTest(p, text), lastIndex |-> li]
    ELSE IF p.anchored
    THEN IF li = 0 /\ PatternTest(p, text)
         THEN [matched |-> TRUE, lastIndex |-> Len(text)]
         ELSE [matched |-> FALSE, lastIndex |-> 0]
    ELSE LET at(i) == {q \in p.phrases : /\ i + Len(q) - 1 <= Len(text)
                                         /\ SubSeq(text, i, i + Len(q) - 1) = q}
             starts == {i \in (li + 1)..Len(text) : at(i) # {}}
         IN IF starts = {} THEN [matched |-> FALSE, lastIndex |-> 0]
            ELSE LET i == CHOOSE j \in starts : \A k \in starts : j <= k
                     ends == {i + Len(q) - 1 : q \in at(i)}
                 IN [matched |-> TRUE,
                     lastIndex |-> CHOOSE e \in ends : \A f \in ends : e <= f]

\* ^(...)[\s!.,]*$
Anch(phrases) == [anchored |-> TRUE, phrases |-> phrases, trail |-> {Bangs}, global |-> FALSE]
\* ^(...)[\s?]*$
AnchQ(phrases) == [anchored |-> TRUE, phrases |-> phrases, trail |-> {}, global |-> FALSE]
\* an unanchored pattern compiled with the flags 'gi'
Srch_global(phrases) == [anchored |-> FALSE, phrases |-> phrases, trail |-> {}, global |-> TRUE]

\* /.../i and new RegExp(..., 'i'): no pattern of the classifier has the flag g
Srch(phrases) == [anchored |-> FALSE, phrases |-> phrases, trail |-> {}, global |-> FALSE]

Words(ws) == {<<w>> : w \in ws}

PATTERNS(intent) ==
    CASE intent = "GREETING" ->
           <<Anch(Words({"hi", "hello", "hey", "assalam", "salam", "aoa", "asc"})
                  \cup {<<"good", "morning">>, <<"good", "evening">>, <<"good", "afternoon">>}),
             Anch({<<g>> \o t : g \in {"hi", "hello", "hey", "salam", "aoa"},
                                 t \in {<<>>, <<"there">>, <<"everyone">>, <<"all">>}}),
             Anch({<<"assalam", "o", "alaikum">>, <<"assalam", "alaikum">>,
                   <<"wa", "alaikum", "assalam">>}),
             AnchQ({<<a, b>> : a \in {"kia", "kya"}, b \in {"hal", "haal"}})>>
      [] intent = "SERVICE_INQUIRY" ->
           <<Srch(Words({"service", "package", "offer", "plan"})
                  \cup {<<"what", "do", "you", "do">>, <<"what", "do", "you", "offer">>}),
             Srch({<<v, n>> : v \in {"tell", "show", "explain", "describe"},
                              n \in {"service", "package", "offer"}}),
             Srch(Words({"basic", "standard", "premium"})),
             Srch({<<a, b>> : a \in {"kya", "konsi"}, b \in {"service", "package"}}),
             Srch({<<"service", b>> : b \in {"list", "detail", "details", "info"}}),
             Srch(Words({"feature", "features", "include"}) \cup {<<"kya", "milega">>})>>
      [] intent = "PRICING_INQUIRY" ->
           <<Srch(Words({"price", "pricing", "cost", "rate", "kitne", "kitna", "charge",
                         "fee", "paisa", "rupee", "rs", "pkr"})),
             Srch({<<"how", "much">>, <<"kya", "rate">>, <<"konsi", "price">>}),
             Srch(Words({"budget", "affordable", "cheap", "expensive", "discount"}))>>
      [] intent = "PAYMENT_CONFIRMATION" ->
           <<Srch(Words({"paid"}) \cup {<<"payment", "done">>, <<"payment", "sent">>,
                  <<"payment", "kiya">>, <<"payment", "kar", "diya">>, <<"payment", "ho", "gaya">>}),
             Srch({<<"bhej", "diya">>, <<"bhej", "di">>, <<"transfer", "kiya">>,
                   <<"transfer", "kar", "diya">>}),
             Srch(Words({"screenshot", "receipt", "slip"})),
             Srch({<<"check", "kar">>, <<"check", "karein">>, <<"check", "karo">>,
                   <<"verify", "kar">>, <<"verify", "karein">>, <<"verify", "karo">>})>>
      [] intent = "PAYMENT_INQUIRY" ->
           <<Srch({<<"how", "to", "pay">>, <<"payment", "method">>, <<"kaise", "pay">>}),
             Srch(Words({"jazzcash", "easypaisa"}) \cup {<<"bank", "transfer">>,
                  <<"account", "number">>, <<"account", "detail">>, <<"account", "details">>}),
             Srch(Words({"advance", "deposit", "token"})),
             Srch({<<"payment", "detail">>, <<"payment", "details">>, <<"where", "to", "send">>,
                   <<"kahan", "bhejun">>})>>
      [] intent = "ORDER_INTENT" ->
           <<Srch(Words({"order", "book", "buy", "purchase", "khareed", "chahiye"})
                  \cup {<<"lena", "hai">>}),
             Srch({<<"want", "to", v>> : v \in {"order", "buy", "get"}}
                  \cup {<<"mujhe", "chahiye">>}),
             Srch(Words({"proceed", "confirm", "finalize"})),
             Srch({<<s, v>> : s \in {"i'll"}, v \in {"take", "get", "order"}}
                  \cup {<<"i", "will", v>> : v \in {"take", "get", "order"}})>>
      [] intent = "HUMAN_REQUEST" -> <<Srch(human_handoff_triggers)>>
      [] intent = "FRUSTRATION" -> <<Srch(frustration_indicators)>>
      [] intent = "CONFIRMATION" ->
           <<Anch(Words({"yes", "yeah", "yep", "ok", "okay", "sure", "alright", "theek",
                         "thik", "haan", "ji", "hnji", "bilkul", "zaroor"})),
             Srch(Words({"perfect", "great", "done", "agreed"})
                  \cup {<<"sound", "good">>, <<"sounds", "good">>})>>
      [] intent = "REJECTION" ->
           <<Anch(Words({"no", "nope", "nah", "nahi", "na", "cancel", "stop"})),
             Srch({<<"not", "interested">>, <<"don't", "want">>, <<"nahi", "chahiye">>})>>
      [] intent = "FAQ" ->
           <<Srch(Words({"refund", "cancel", "cancellation"}) \cup {<<"money", "back">>}),
             Srch(Words({"delivery"}) \cup {<<"how", "long">>, <<"kitne", "din">>,
                  <<"time", "lagega">>}),
             Srch(Words({"revision", "change", "modify", "update", "edit"})),
             Srch(Words({"support", "help"}) \cup {<<"after", "service">>}),
             Srch(Words({"sample", "portfolio", "example"}) \cup {<<"previous", "work">>}),
             Srch(Words({"guarantee", "warranty"}))>>
      [] OTHER -> <<>>

SERVICE_PATTERNS ==
    [i \in DOMAIN services |->
        [id |-> services[i].id, name |-> services[i].name, pattern |-> Srch({services[i].name})]]

\* String.prototype.toLowerCase on one word
toLowerCase(w) ==
    CASE w = "Hi" -> "hi"
      [] w = "Useless" -> "useless"
      [] w = "PAID" -> "paid"
      [] w = "Agent" -> "agent"
      [] OTHER -> w

\* message.trim().toLowerCase()
cleanText(message) == [i \in DOMAIN message |-> toLowerCase(message[i])]

\* number of characters of one word
wordLength(w) ==
    CASE w \in {"i", "o"} -> 1
      [] w \in {"hi", "is", "ka", "ok", "to", "na", "no", "ji", "rs", "do", "wa", "di", "Hi"} -> 2
      [] w \in {"hey", "yes", "aoa", "asc", "pay", "buy", "not", "thx", "all", "kar", "fee"} -> 3
      [] w \in {"paid", "team", "sure", "plan", "cost", "rate", "help", "/foo", "logo",
                 "PAID"} -> 4
      [] w \in {"hello", "agent", "human", "price", "mujhe", "batao", "basic", "order",
                 "Agent"} -> 5
      [] w \in {"thanks", "cancel", "design"} -> 6
      [] w \in {"package", "service", "useless", "premium", "working", "Useless"} -> 7
      [] w = Bangs -> 15
      [] OTHER -> 8

RECURSIVE textLength(_)
\* message.length of the words joined by single blanks
textLength(text) ==
    IF Len(text) = 0 THEN 0
    ELSE IF Len(text) = 1 THEN wordLength(text[1])
    ELSE wordLength(text[1]) + (IF text[2] = Bangs THEN 0 ELSE 1) + textLength(Tail(text))

\* calculateConfidence that takes a greeting for short below 10 characters
calculateConfidence_shortBelow10(intent, message) ==
    LET c0 == 70
        c1 == IF intent = "GREETING" /\ textLength(message) < 10 THEN 95 ELSE c0
        c2 == IF intent = "HUMAN_REQUEST" THEN 95 ELSE c1
        c3 == IF intent = "FRUSTRATION" THEN 90 ELSE c2
        c4 == IF intent = "PAYMENT_CONFIRMATION" THEN 85 ELSE c3
        c5 == IF intent = "SERVICE_INQUIRY" /\ textLength(message) > 30 THEN 75 ELSE c4
    IN c5

\* calculateConfidence without the rule for long messages with service terms
calculateConfidence_noLengthRule(intent, message) ==
    LET c0 == 70
        c1 == IF intent = "GREETING" /\ textLength(message) < 20 THEN 95 ELSE c0
        c2 == IF intent = "HUMAN_REQUEST" THEN 95 ELSE c1
        c3 == IF intent = "FRUSTRATION" THEN 90 ELSE c2
        c4 == IF intent = "PAYMENT_CONFIRMATION" THEN 85 ELSE c3
    IN c4

calculateConfidence(intent, message) ==
    LET c0 == 70
        c1 == IF intent = "GREETING" /\ textLength(message) < 20 THEN 95 ELSE c0
        c2 == IF intent = "HUMAN_REQUEST" THEN 95 ELSE c1
        c3 == IF intent = "FRUSTRATION" THEN 90 ELSE c2
        c4 == IF intent = "PAYMENT_CONFIRMATION" THEN 85 ELSE c3
        c5 == IF intent = "SERVICE_INQUIRY" /\ textLength(message) > 30 THEN 75 ELSE c4
    IN c5

\* the pattern objects of the module: they are compiled once, when it is loaded
PatternIds ==
    UNION {{<<PatternOrder[k], i>> : i \in DOMAIN PATTERNS(PatternOrder[k])} :
             k \in DOMAIN PatternOrder}
    \cup {<<"SERVICE", i>> : i \in DOMAIN SERVICE_PATTERNS}

\* pattern.test(cleanMessage) on the pattern object id
testPattern(id, p, text) == testAt(p, lastIndex[id], text)

\* index of the first pattern of the intent that matches, 0 if none
firstPattern(intent, text) ==
    LET ps == PATTERNS(intent)
        hits == {i \in DOMAIN ps : testPattern(<<intent, i>>, ps[i], text).matched}
    IN IF hits = {} THEN 0 ELSE CHOOSE i \in hits : \A j \in hits : i <= j

RECURSIVE collectMatches(_, _)
\* the matches array, in the order of Object.entries(PATTERNS), from entry k on
collectMatches(text, k) ==
    IF k > Len(PatternOrder) THEN <<>>
    ELSE LET intent == PatternOrder[k]
             p == firstPattern(intent, text)
         IN (IF p = 0 THEN <<>>
             ELSE <<[intent |-> intent, pattern |-> <<intent, p>>,
                     confidence |-> calculateConfidence(intent, text)]>>)
            \o collectMatches(text, k + 1)

RECURSIVE sortMatches_unstable(_)
\* sortMatches that puts a match behind the later matches of equal confidence
sortMatches_unstable(matches) ==
    IF Len(matches) <= 1 THEN matches
    ELSE LET rest == sortMatches_unstable(Tail(matches))
             h == Head(matches)
             k == Cardinality({i \in DOMAIN rest : rest[i].confidence >= h.confidence})
         IN SubSeq(rest, 1, k) \o <<h>> \o SubSeq(rest, k + 1, Len(rest))

RECURSIVE sortMatches(_)
\* matches.sort((a, b) => b.confidence - a.confidence): descending and stable
sortMatches(matches) ==
    IF Len(matches) <= 1 THEN matches
    ELSE LET rest == sortMatches(Tail(matches))
             h == Head(matches)
             k == Cardinality({i \in DOMAIN rest : rest[i].confidence > h.confidence})
         IN SubSeq(rest, 1, k) \o <<h>> \o SubSeq(rest, k + 1, Len(rest))

\* SERVICE_PATTERNS.find(sp => sp.pattern.test(cleanMessage)), 0 if undefined
serviceMatchOf(text) ==
    LET hits == {i \in DOMAIN SERVICE_PATTERNS :
                    testPattern(<<"SERVICE", i>>, SERVICE_PATTERNS[i].pattern, text).matched}
    IN IF hits = {} THEN 0 ELSE CHOOSE i \in hits : \A j \in hits : i <= j

\* the pattern objects one call of classifyIntent runs test on: those of an intent up
\* to its first match, those of the services up to the one find returns
testedPatterns(message, hasMedia) ==
    IF message = <<>> \/ hasMedia THEN {}
    ELSE LET text == cleanText(message)
             ofIntents == {id \in PatternIds :
                             /\ id[1] # "SERVICE"
                             /\ \/ firstPattern(id[1], text) = 0
                                \/ id[2] <= firstPattern(id[1], text)}
             ofServices == {id \in PatternIds :
                              /\ id[1] = "SERVICE"
                              /\ \/ serviceMatchOf(text) = 0
                                 \/ id[2] <= serviceMatchOf(text)}
         IN IF collectMatches(text, 1) = <<>> THEN ofIntents ELSE ofIntents \cup ofServices

\* lastIndex of every pattern object when the call of classifyIntent has returned
lastIndexAfter(message, hasMedia) ==
    LET text == cleanText(message)
        tested == testedPatterns(message, hasMedia)
    IN [id \in PatternIds |->
          IF id \notin tested THEN lastIndex[id]
          ELSE IF id[1] = "SERVICE"
          THEN testPattern(id, SERVICE_PATTERNS[id[2]].pattern, text).lastIndex
          ELSE testPattern(id, PATTERNS(id[1])[id[2]], text).lastIndex]

\* a metadata object: keys is the set of properties that are present
Metadata(keys, allMatches, matchedPattern, serviceId, serviceName, frustrated) ==
    [keys |-> keys, allMatches |-> allMatches, matchedPattern |-> matchedPattern,
     serviceId |-> serviceId, serviceName |-> serviceName, frustrated |-> frustrated,
     hasMedia |-> "hasMedia" \in keys]

EmptyMetadata == Metadata({}, <<>>, <<>>, "", <<>>, FALSE)

\* classifyIntent without the remapping of a winning FRUSTRATION match
classifyIntent_noRemap(message, hasMedia) ==
    IF message = <<>>
    THEN [intent |-> "GENERAL_CHAT", confidence |-> 50, metadata |-> EmptyMetadata]
    ELSE IF hasMedia
    THEN [intent |-> "PAYMENT_CONFIRMATION", confidence |-> 85,
          metadata |-> Metadata({"hasMedia"}, <<>>, <<>>, "", <<>>, FALSE)]
    ELSE
      LET cleanMessage == cleanText(message)
          matches == sortMatches(collectMatches(cleanMessage, 1))
      IN IF Len(matches) = 0
         THEN [intent |-> "GENERAL_CHAT", confidence |-> 60, metadata |-> EmptyMetadata]
         ELSE
           LET bestMatch == matches[1]
               sm == serviceMatchOf(cleanMessage)
               upgraded == sm # 0 /\ bestMatch.intent = "GENERAL_CHAT"
               frustrated == FALSE
               keys == {"allMatches", "matchedPattern"}
                       \cup (IF sm # 0 THEN {"serviceId", "serviceName"} ELSE {})
                       \cup (IF frustrated THEN {"frustrated"} ELSE {})
           IN [intent |-> IF frustrated THEN "HUMAN_REQUEST"
                          ELSE IF upgraded THEN "SERVICE_INQUIRY" ELSE bestMatch.intent,
               confidence |-> IF frustrated THEN 90
                              ELSE IF upgraded THEN 80 ELSE bestMatch.confidence,
               metadata |-> Metadata(keys,
                                     [i \in DOMAIN matches |-> matches[i].intent],
                                     bestMatch.pattern,
                                     IF sm # 0 THEN SERVICE_PATTERNS[sm].id ELSE "",
                                     IF sm # 0 THEN SERVICE_PATTERNS[sm].name ELSE <<>>,
                                     frustrated)]

\* classifyIntent that looks for a service name when no pattern matched
classifyIntent_upgradesUnmatched(message, hasMedia) ==
    IF message = <<>>
    THEN [intent |-> "GENERAL_CHAT", confidence |-> 50, metadata |-> EmptyMetadata]
    ELSE IF hasMedia
    THEN [intent |-> "PAYMENT_CONFIRMATION", confidence |-> 85,
          metadata |-> Metadata({"hasMedia"}, <<>>, <<>>, "", <<>>, FALSE)]
    ELSE
      LET cleanMessage == cleanText(message)
          matches == sortMatches(collectMatches(cleanMessage, 1))
      IN IF Len(matches) = 0
         THEN IF serviceMatchOf(cleanMessage) # 0
              THEN [intent |-> "SERVICE_INQUIRY", confidence |-> 80,
                    metadata |-> Metadata({"serviceId", "serviceName"}, <<>>, <<>>,
                                          SERVICE_PATTERNS[serviceMatchOf(cleanMessage)].id,
                                          SERVICE_PATTERNS[serviceMatchOf(cleanMessage)].name,
                                          FALSE)]
              ELSE [intent |-> "GENERAL_CHAT", confidence |-> 60, metadata |-> EmptyMetadata]
         ELSE
           LET bestMatch == matches[1]
               sm == serviceMatchOf(cleanMessage)
               upgraded == sm # 0 /\ bestMatch.intent = "GENERAL_CHAT"
               frustrated == bestMatch.intent = "FRUSTRATION"
               keys == {"allMatches", "matchedPattern"}
                       \cup (IF sm # 0 THEN {"serviceId", "serviceName"} ELSE {})
                       \cup (IF frustrated THEN {"frustrated"} ELSE {})
           IN [intent |-> IF frustrated THEN "HUMAN_REQUEST"
                          ELSE IF upgraded THEN "SERVICE_INQUIRY" ELSE bestMatch.intent,
               confidence |-> IF frustrated THEN 90
                              ELSE IF upgraded THEN 80 ELSE bestMatch.confidence,
               metadata |-> Metadata(keys,
                                     [i \in DOMAIN matches |-> matches[i].intent],
                                     bestMatch.pattern,
                                     IF sm # 0 THEN SERVICE_PATTERNS[sm].id ELSE "",
                                     IF sm # 0 THEN SERVICE_PATTERNS[sm].name ELSE <<>>,
                                     frustrated)]

classifyIntent(message, hasMedia) ==
    IF message = <<>>
    THEN [intent |-> "GENERAL_CHAT", confidence |-> 50, metadata |-> EmptyMetadata]
    ELSE IF hasMedia
    THEN [intent |-> "PAYMENT_CONFIRMATION", confidence |-> 85,
          metadata |-> Metadata({"hasMedia"}, <<>>, <<>>, "", <<>>, FALSE)]
    ELSE
      LET cleanMessage == cleanText(message)
          matches == sortMatches(collectMatches(cleanMessage, 1))
      IN IF Len(matches) = 0
         THEN [intent |-> "GENERAL_CHAT", confidence |-> 60, metadata |-> EmptyMetadata]
         ELSE
           LET bestMatch == matches[1]
               sm == serviceMatchOf(cleanMessage)
               upgraded == sm # 0 /\ bestMatch.intent = "GENERAL_CHAT"
               frustrated == bestMatch.intent = "FRUSTRATION"
               keys == {"allMatches", "matchedPattern"}
                       \cup (IF sm # 0 THEN {"serviceId", "serviceName"} ELSE {})
                       \cup (IF frustrated THEN {"frustrated"} ELSE {})
           IN [intent |-> IF frustrated THEN "HUMAN_REQUEST"
                          ELSE IF upgraded THEN "SERVICE_INQUIRY" ELSE bestMatch.intent,
               confidence |-> IF frustrated THEN 90
                              ELSE IF upgraded THEN 80 ELSE bestMatch.confidence,
               metadata |-> Metadata(keys,
                                     [i \in DOMAIN matches |-> matches[i].intent],
                                     bestMatch.pattern,
                                     IF sm # 0 THEN SERVICE_PATTERNS[sm].id ELSE "",
                                     IF sm # 0 THEN SERVICE_PATTERNS[sm].name ELSE <<>>,
                                     frustrated)]

\* shouldHandoff that gives every human request the normal priority
shouldHandoff_frustrationIgnored(classification) ==
    IF classification.intent = "HUMAN_REQUEST"
    THEN [handoff |-> TRUE,
          reason |-> IF classification.metadata.frustrated
                     THEN "Customer frustration detected"
                     ELSE "Customer requested human agent",
          priority |-> "normal"]
    ELSE IF classification.intent = "OUT_OF_SCOPE"
    THEN [handoff |-> TRUE, reason |-> "Query outside knowledge base", priority |-> "normal"]
    ELSE [handoff |-> FALSE, reason |-> "null", priority |-> "null"]

shouldHandoff(classification) ==
    IF classification.intent = "HUMAN_REQUEST"
    THEN [handoff |-> TRUE,
          reason |-> IF classification.metadata.frustrated
                     THEN "Customer frustration detected"
                     ELSE "Customer requested human agent",
          priority |-> IF classification.metadata.frustrated THEN "high" ELSE "normal"]
    ELSE IF classification.intent = "OUT_OF_SCOPE"
    THEN [handoff |-> TRUE, reason |-> "Query outside knowledge base", priority |-> "normal"]
    ELSE [handoff |-> FALSE, reason |-> "null", priority |-> "null"]

\* the commands table of parseAdminCommand
AdminCommands ==
    [c \in {"/approve", "/reject", "/resume_ai", "/resumeai", "/assign", "/resolve",
            "/status", "/stats", "/help"} |->
        CASE c = "/approve" -> "approve_payment"
          [] c = "/reject" -> "reject_payment"
          [] c \in {"/resume_ai", "/resumeai"} -> "resume_ai"
          [] c = "/assign" -> "assign_handoff"
          [] c = "/resolve" -> "resolve_handoff"
          [] c = "/status" -> "get_status"
          [] c = "/stats" -> "get_stats"
          [] OTHER -> "admin_help"]

\* message.startsWith('/')
startsWithSlash(w) == w \in DOMAIN AdminCommands \/ w = "/foo"

parseAdminCommand(message) ==
    IF message = <<>> \/ ~startsWithSlash(message[1]) THEN NULL
    ELSE LET command == toLowerCase(message[1])
             args == Tail(message)
         IN IF command \notin DOMAIN AdminCommands THEN NULL
            ELSE [command |-> command, action |-> AdminCommands[command],
                  id |-> IF Len(args) > 0 THEN args[1] ELSE "null", args |-> args]

(***************************************************************************)
(* Canned texts (prompt.builder, knowledge-base.json responses, literals)  *)
(***************************************************************************)
RATE_LIMIT_REPLY == <<"aap", "bohot", "messages", "bhej", "rahe", "hain">>
REJECTION_REPLY == <<"koi", "baat", "nahi", "madad", "chahiye", "batayein">>
RESUME_REPLY == <<"ai", "assistant", "dobara", "active">>
PAYMENT_CONFIRMED_REPLY == <<"payment", "confirmed", "order", "par", "kaam">>

buildHandoffResponse == <<"handoff", "initiated">>
buildErrorResponse == <<"error", "contact", ADMIN_PHONE>>
buildPaymentReceivedResponse == <<"payment", "received">>
buildPaymentRejectedResponse(reason) == <<"payment", "rejected", reason>>
getPaymentMethodsMessage == <<"payment", "methods", "screenshot", "share">>
getServiceInfo(serviceId) == <<"service", "info", serviceId>>
getGreetingMessage(isReturning) == IF isReturning THEN <<"welcome", "back">> ELSE <<"welcome">>

\* what geminiService.generateResponse / getFallbackResponse can come back with
AIReplies == {<<"ai", "answer">>, <<"team", "se", "connect">>}

\* the value initiateHandoff returns on success: { success, handoffId, response }
HandoffResult(id) == [success |-> TRUE, handoffId |-> id, response |-> buildHandoffResponse]

\* that object where a text is expected (sendText argument, messages.message)
objectAsText(r) ==
    IF r.success THEN <<"{success,handoffId,response}">> \o r.response
    ELSE <<"{success,error}">>

isString(v) == Len(v) = 0 \/ v[1] \notin {"{success,handoffId,response}", "{success,error}"}

\* String.prototype.includes(sub) on a text
includes(text, sub) ==
    \E i \in DOMAIN text :
        text[i] \in (CASE sub = "connect" -> {"connect", "connecting", "connected"}
                       [] sub = "order" -> {"order", "orders", "reorder"}
                       [] OTHER -> {sub})

(***************************************************************************)
(* Store (services/supabase.service over the schema of the README)         *)
(***************************************************************************)
\* PostgREST .single(): the row if exactly one row qualifies, else null
single(rows) == IF Len(rows) = 1 THEN rows[1] ELSE NULL

rowsOfChat(table, chatId) == SelectSeq(table, LAMBDA r : r.chat_id = chatId)

getConversation(convs, chatId) == single(rowsOfChat(convs, chatId))

\* conversations.chat_id is UNIQUE: the insert of a second row for a chat is an error
\* uniqueViolation for a conversations table without the UNIQUE constraint on chat_id
uniqueViolation_never(convs, chatId) == FALSE

uniqueViolation(convs, chatId) == \E i \in DOMAIN convs : convs[i].chat_id = chatId

insertConversation(convs, chatId, phoneNumber) ==
    Append(convs, [id |-> ToString(Len(convs) + 1), chat_id |-> chatId,
                   phone_number |-> phoneNumber, status |-> "active", human_agent |-> "null"])

\* updateConversationStatus that matches no row
updateConversationStatus_noRow(convs, chatId, status) == convs

updateConversationStatus(convs, chatId, status) ==
    [i \in DOMAIN convs |->
        IF convs[i].chat_id = chatId
        THEN [convs[i] EXCEPT !.status = status, !.human_agent = "null"]
        ELSE convs[i]]

saveMessage(msgs, conversationId, chatId, sender, message, messageType, intent) ==
    Append(msgs, [conversation_id |-> conversationId, chat_id |-> chatId, sender |-> sender,
                  message |-> message, message_type |-> messageType, intent |-> intent])

\* .order('timestamp', { ascending: true }).limit(limit)
getConversationHistory(msgs, chatId, limit) ==
    LET all == rowsOfChat(msgs, chatId)
    IN SubSeq(all, 1, IF Len(all) < limit THEN Len(all) ELSE limit)

HISTORY_LIMIT == 10

getById(table, id) == single(SelectSeq(table, LAMBDA r : r.id = id))

\* insertPayment that keeps one pending payment per chat
insertPayment_dedup(pays, conversation, chatId, phoneNumber, screenshotUrl) ==
    IF \E i \in DOMAIN pays : pays[i].chat_id = chatId /\ pays[i].status = "pending"
    THEN pays
    ELSE Append(pays, [id |-> ToString(Len(pays) + 1),
                       conversation_id |-> IF conversation = NULL THEN "null" ELSE conversation.id,
                       chat_id |-> chatId, phone_number |-> phoneNumber,
                       amount |-> "null", payment_method |-> "null",
                       screenshot_url |-> screenshotUrl, status |-> "pending",
                       approved_by |-> "null", rejection_reason |-> "null"])

insertPayment(pays, conversation, chatId, phoneNumber, screenshotUrl) ==
    Append(pays, [id |-> ToString(Len(pays) + 1),
                  conversation_id |-> IF conversation = NULL THEN "null" ELSE conversation.id,
                  chat_id |-> chatId, phone_number |-> phoneNumber,
                  amount |-> "null", payment_method |-> "null",
                  screenshot_url |-> screenshotUrl, status |-> "pending",
                  approved_by |-> "null", rejection_reason |-> "null"])

storeApprovePayment(pays, paymentId, approvedBy) ==
    [i \in DOMAIN pays |->
        IF pays[i].id = paymentId
        THEN [pays[i] EXCEPT !.status = "approved", !.approved_by = approvedBy]
        ELSE pays[i]]

\* storeRejectPayment that updates pending payments only
storeRejectPayment_pendingOnly(pays, paymentId, reason, rejectedBy) ==
    [i \in DOMAIN pays |->
        IF pays[i].id = paymentId /\ pays[i].status = "pending"
        THEN [pays[i] EXCEPT !.status = "rejected", !.rejection_reason = reason,
                             !.approved_by = rejectedBy]
        ELSE pays[i]]

storeRejectPayment(pays, paymentId, reason, rejectedBy) ==
    [i \in DOMAIN pays |->
        IF pays[i].id = paymentId
        THEN [pays[i] EXCEPT !.status = "rejected", !.rejection_reason = reason,
                             !.approved_by = rejectedBy]
        ELSE pays[i]]

insertHandoff(queue, conversation, chatId, phoneNumber, reason, priority) ==
    Append(queue, [id |-> ToString(Len(queue) + 1),
                   conversation_id |-> IF conversation = NULL THEN "null" ELSE conversation.id,
                   chat_id |-> chatId, phone_number |-> phoneNumber, reason |-> reason,
                   priority |-> priority, status |-> "pending", assigned_to |-> "null",
                   resolution_notes |-> "null"])

ActiveHandoffStatus == {"pending", "assigned", "in_progress"}

storeAssignHandoff(queue, handoffId, agentId) ==
    [i \in DOMAIN queue |->
        IF queue[i].id = handoffId
        THEN [queue[i] EXCEPT !.status = "assigned", !.assigned_to = agentId]
        ELSE queue[i]]

storeResolveHandoff(queue, handoffId, resolutionNotes) ==
    [i \in DOMAIN queue |->
        IF queue[i].id = handoffId
        THEN [queue[i] EXCEPT !.status = "resolved", !.resolution_notes = resolutionNotes]
        ELSE queue[i]]

\* storeResumeAI that resolves the pending requests only
storeResumeAI_pendingOnly(queue, chatId) ==
    [i \in DOMAIN queue |->
        IF queue[i].chat_id = chatId /\ queue[i].status = "pending"
        THEN [queue[i] EXCEPT !.status = "resolved", !.resolution_notes = "AI resumed by admin"]
        ELSE queue[i]]

\* the handoff_queue update of supabaseService.resumeAI
storeResumeAI(queue, chatId) ==
    [i \in DOMAIN queue |->
        IF queue[i].chat_id = chatId /\ queue[i].status \in ActiveHandoffStatus
        THEN [queue[i] EXCEPT !.status = "resolved", !.resolution_notes = "AI resumed by admin"]
        ELSE queue[i]]

\* rateLimitDecision with the ceiling compared by > instead of >=
rateLimitDecision_offByOne(record, windowStart) ==
    IF record = NULL THEN "insert"
    ELSE IF record.window_start < windowStart THEN "reset"
    ELSE IF record.message_count > maxRequests THEN "reject"
    ELSE "increment"

\* checkRateLimit after the select: what the record read leads to
rateLimitDecision(record, windowStart) ==
    IF record = NULL THEN "insert"
    ELSE IF record.window_start < windowStart THEN "reset"
    ELSE IF record.message_count >= maxRequests THEN "reject"
    ELSE "increment"

\* rateLimitWrite whose increment is done by the store on the count it holds
rateLimitWrite_atomic(limits, chatId, decision, record, clock) ==
    CASE decision = "insert" ->
           IF limits[chatId] = NULL
           THEN [limits EXCEPT ![chatId] = [message_count |-> 1, window_start |-> clock]]
           ELSE limits
      [] decision = "reset" ->
           IF limits[chatId] = NULL THEN limits
           ELSE [limits EXCEPT ![chatId] = [message_count |-> 1, window_start |-> clock]]
      [] decision = "increment" ->
           IF limits[chatId] = NULL THEN limits
           ELSE [limits EXCEPT ![chatId].message_count = @ + 1]
      [] OTHER -> limits

\* the write checkRateLimit issues for that decision, applied to the table as it is then
rateLimitWrite(limits, chatId, decision, record, clock) ==
    CASE decision = "insert" ->
           IF limits[chatId] = NULL
           THEN [limits EXCEPT ![chatId] = [message_count |-> 1, window_start |-> clock]]
           ELSE limits
      [] decision = "reset" ->
           IF limits[chatId] = NULL THEN limits
           ELSE [limits EXCEPT ![chatId] = [message_count |-> 1, window_start |-> clock]]
      [] decision = "increment" ->
           IF limits[chatId] = NULL THEN limits
           ELSE [limits EXCEPT ![chatId].message_count = record.message_count + 1]
      [] OTHER -> limits

(***************************************************************************)
(* Transport (services/waha.service)                                       *)
(***************************************************************************)
parseWebhookPayload(payload) ==
    IF payload.event \notin {"message", "message.any"} THEN NULL
    ELSE IF payload.fromMe THEN NULL
    ELSE IF payload.chatId = "status@broadcast" THEN NULL
    ELSE [chatId |-> payload.chatId, phoneNumber |-> extractPhoneNumber(payload.chatId),
          body |-> payload.body, hasMedia |-> payload.hasMedia, mediaType |-> payload.type,
          isGroup |-> isGroupChat(payload.chatId)]

isProcessableMessage(m) ==
    IF m = NULL THEN FALSE
    ELSE IF m.isGroup THEN FALSE
    ELSE IF m.body = <<>> /\ ~m.hasMedia THEN FALSE
    ELSE TRUE

(***************************************************************************)
(* Requests the environment can make                                       *)
(***************************************************************************)
Payload(chatId, body, hasMedia) ==
    [event |-> "message", fromMe |-> FALSE, chatId |-> chatId, body |-> body,
     hasMedia |-> hasMedia, type |-> IF hasMedia THEN "image" ELSE "text"]

CustomerBodies == {<<"hi">>, <<"paid">>, <<"yes">>, <<"agent">>, <<"thanks">>}

AdminBodies == {<<"/approve", "1">>, <<"/reject", "1">>, <<"/resume_ai", CUSTOMER_CHAT>>,
                <<"/resume_ai">>, <<"/stats">>, <<"/help">>, <<"/assign", "1">>, <<"/foo">>}

Payloads ==
    {Payload(CUSTOMER_CHAT, b, FALSE) : b \in CustomerBodies}
    \cup {Payload(CUSTOMER_CHAT, <<>>, TRUE), Payload(CUSTOMER_CHAT, <<>>, FALSE),
          Payload(CUSTOMER_CHAT, <<"paid">>, TRUE)}
    \cup {Payload(ADMIN_CHAT, b, FALSE) : b \in AdminBodies}
    \cup {Payload(GROUP_CHAT, <<"hi">>, FALSE),
          [Payload(CUSTOMER_CHAT, <<"hi">>, FALSE) EXCEPT !.fromMe = TRUE]}

\* the admin routes that change or use the store
ApiRequests ==
    {[route |-> "approve-payment", id |-> "1"],
     [route |-> "reject-payment", id |-> "1"],
     [route |-> "assign-handoff", id |-> "1"],
     [route |-> "resolve-handoff", id |-> "1"],
     [route |-> "resume-ai", id |-> CUSTOMER_CHAT],
     [route |-> "resume-ai", id |-> CUSTOMER_PHONE],
     [route |-> "send-message", id |-> CUSTOMER_CHAT]}

(***************************************************************************)
(* Tasks                                                                   *)
(***************************************************************************)
Idle ==
    [op |-> "idle", pc |-> "idle", msg |-> NULL, arg |-> "null", arg2 |-> "null",
     by |-> "null", call |-> 0, windowStart |-> 0, rl |-> NULL, decision |-> "null", conv |-> NULL,
     conv2 |-> NULL, cls |-> NULL, row |-> NULL, history |-> <<>>, response |-> <<>>,
     caller |-> "null", reason |-> "null", priority |-> "null", handoffId |-> "null",
     sent |-> <<>>, ret |-> NULL, calls |-> {}, faults |-> {}, failure |-> "null",
     sheet |-> "null", failed |-> {}, acks |-> 0, thrown |-> FALSE]

Running == {t \in Tasks : task[t].op # "idle"}

At(t, pc) == task[t].pc = pc

\* the task continues with the fields of r changed
Set(t, r) == task' = [task EXCEPT ![t] = r @@ task[t]]

\* wahaService.sendText(to, text) appended to what the task has sent
Sent(t, to, text) == Append(task[t].sent, [to |-> to, text |-> text])

Return(value) == [pc |-> "done", ret |-> value]

\* the collaborators that may fail while a request is handled: the insert statements
\* of the store that throw on error ("store"), the spreadsheet ("sheets"), the
\* transport when the operator is notified ("notify"), every generation provider ("ai")
FaultKinds == {"store", "sheets", "notify", "ai", "update"}

\* what a call of a collaborator of that kind may do in the task
Outcomes(t, kind) == IF kind \in task[t].faults THEN {"ok", "failed"} ELSE {"ok"}

\* sendText(to, text) whose result is {success: false} when the outcome is "failed"
SentWith(t, to, text, outcome) ==
    [sent |-> Sent(t, to, text),
     failed |-> IF outcome = "failed" THEN task[t].failed \cup {Len(task[t].sent) + 1}
                ELSE task[t].failed]

\* what initiateHandoff returns from its catch block
HandoffFailure == [success |-> FALSE, error |-> "error.message"]

mediaTypeOf(m) == IF m.hasMedia THEN m.mediaType ELSE "text"

\* handoffHandler.resumeAI up to its first await
resumeAIEntry(chatIdOrPhone, by) ==
    IF chatIdOrPhone = "null"
    THEN [pc |-> "ra_error", by |-> by]
    ELSE [pc |-> "ra_status", by |-> by,
          arg |-> IF includesAt(chatIdOrPhone) THEN chatIdOrPhone ELSE appendCus(chatIdOrPhone)]

\* handleAdminCommand up to the first await of the handler it selects
handleAdminCommand(command) ==
    CASE command.action = "approve_payment" ->
           [pc |-> "ap_select", arg |-> command.id, by |-> ADMIN_PHONE]
      [] command.action = "reject_payment" ->
           [pc |-> "rj_select", arg |-> command.id, by |-> ADMIN_PHONE,
            arg2 |-> IF Len(command.args) > 1 THEN command.args[2]
                     ELSE "Payment could not be verified"]
      [] command.action = "resume_ai" -> resumeAIEntry(command.id, ADMIN_PHONE)
      [] command.action = "get_stats" -> [pc |-> "stats_select"]
      [] command.action = "admin_help" -> [pc |-> "help_send"]
      [] OTHER -> [pc |-> "unknown_send"]

\* route without the human_handoff branch: every message is classified
route_classifyAlways(m, conversation) ==
    LET adminCmd == IF m.phoneNumber = ADMIN_PHONE THEN parseAdminCommand(m.body) ELSE NULL
    IN IF adminCmd # NULL
       THEN [conv |-> conversation, calls |-> {"handleAdminCommand"}]
            @@ handleAdminCommand(adminCmd)
       ELSE [conv |-> conversation, calls |-> {"classifyIntent"}, pc |-> "in_save",
             cls |-> classifyIntent(m.body, m.hasMedia)]

\* handleIncomingMessage from the conversation it obtained up to the next await
route(m, conversation) ==
    LET adminCmd == IF m.phoneNumber = ADMIN_PHONE THEN parseAdminCommand(m.body) ELSE NULL
    IN IF adminCmd # NULL
       THEN [conv |-> conversation, calls |-> {"handleAdminCommand"}]
            @@ handleAdminCommand(adminCmd)
       ELSE IF conversation.status = "human_handoff"
       THEN [conv |-> conversation, calls |-> {"handleHumanHandoffMessage"}, pc |-> "hh_save"]
       ELSE [conv |-> conversation, calls |-> {"classifyIntent"}, pc |-> "in_save",
             cls |-> classifyIntent(m.body, m.hasMedia)]

\* initiateHandoff up to its first await
initiateHandoffEntry(reason, priority, caller, calls) ==
    [pc |-> "ch_select", reason |-> reason, priority |-> priority, caller |-> caller,
     calls |-> calls \cup {"initiateHandoff"}]

\* handleConfirmation after the history was fetched, up to the next await
handleConfirmation(history, calls) ==
    LET bots == SelectSeq(history, LAMBDA r : r.sender = "bot")
    IN IF Len(bots) = 0 THEN [pc |-> "ai"]
       ELSE LET lastBotText == bots[Len(bots)].message
            IN IF includes(lastBotText, "order") \/ includes(lastBotText, "chahenge")
               THEN [pc |-> "reply_send", response |-> getPaymentMethodsMessage]
               ELSE IF includes(lastBotText, "connect") \/ includes(lastBotText, "team")
               THEN initiateHandoffEntry("Customer confirmed request for human agent",
                                         "normal", "handleConfirmation", calls)
               ELSE [pc |-> "ai"]

\* processIntent after the history was fetched, up to the next await
processIntent(classification, history, calls) ==
    LET intent == classification.intent
        isReturning == Len(history) > 0
    IN CASE intent = "GREETING" ->
              [pc |-> "reply_send", response |-> getGreetingMessage(isReturning)]
         [] intent \in {"SERVICE_INQUIRY", "PRICING_INQUIRY"} ->
              IF classification.metadata.serviceId # ""
              THEN [pc |-> "reply_send",
                    response |-> getServiceInfo(classification.metadata.serviceId)]
              ELSE [pc |-> "ai"]
         [] intent = "ORDER_INTENT" ->
              IF classification.metadata.serviceId # ""
              THEN [pc |-> "reply_send",
                    response |-> getServiceInfo(classification.metadata.serviceId)
                                 \o getPaymentMethodsMessage]
              ELSE [pc |-> "ai"]
         [] intent = "PAYMENT_INQUIRY" ->
              [pc |-> "reply_send", response |-> getPaymentMethodsMessage]
         [] intent = "PAYMENT_CONFIRMATION" -> [pc |-> "cp_select"]
         [] intent = "CONFIRMATION" -> handleConfirmation(history, calls)
         [] intent = "REJECTION" -> [pc |-> "reply_send", response |-> REJECTION_REPLY]
         [] intent = "OUT_OF_SCOPE" ->
              [pc |-> "reply_send", response |-> <<"out", "of", "scope">>]
         [] OTHER -> [pc |-> "ai"]

Init ==
    /\ now = 0
    /\ conversations = <<>>
    /\ messages = <<>>
    /\ payments = <<>>
    /\ handoff_queue = <<>>
    /\ rate_limits = [c \in ChatIds |-> NULL]
    /\ task = [t \in Tasks |-> Idle]
    /\ ops = 0
    /\ lastIndex = [id \in PatternIds |-> 0]

\* the task slot a new request gets
freeTask == CHOOSE t \in Tasks : task[t].op = "idle" /\ \A u \in Tasks : task[u].op = "idle" => t <= u

CanStart(maxTasks, maxOps) ==
    /\ ops < maxOps
    /\ Cardinality(Running) < maxTasks
    /\ \E t \in Tasks : task[t].op = "idle"

(***************************************************************************)
(* POST /webhook: handleIncomingMessage up to the select of checkRateLimit *)
(***************************************************************************)
\* The route answers 200 first and then calls the handler; faults are the
\* collaborators that may fail while this message is handled.
WebhookUnder(payload, faults, maxTasks, maxOps) ==
    /\ CanStart(maxTasks, maxOps)
    /\ LET m == parseWebhookPayload(payload)
       IN IF m = NULL \/ ~isProcessableMessage(m)
          THEN Set(freeTask, [op |-> "message", acks |-> 1]
                             @@ Return([processed |-> FALSE, reason |-> "Message not processable"]))
          ELSE Set(freeTask, [op |-> "message", acks |-> 1, pc |-> "rl_select", msg |-> m,
                              faults |-> faults, windowStart |-> now - windowMs])
    /\ ops' = ops + 1
    /\ UNCHANGED <<lastIndex, now, store>>

\* every collaborator works
Webhook(payload, maxTasks, maxOps) == WebhookUnder(payload, {}, maxTasks, maxOps)

\* the admin routes, each up to the first await of its handler
ApiUnder(req, faults, maxTasks, maxOps) ==
    /\ CanStart(maxTasks, maxOps)
    /\ Set(freeTask,
           [op |-> req.route, faults |-> faults] @@
           (CASE req.route = "approve-payment" ->
                   [pc |-> "ap_select", arg |-> req.id, by |-> "admin-api"]
              [] req.route = "reject-payment" ->
                   [pc |-> "rj_select", arg |-> req.id, by |-> "admin-api", arg2 |-> "Rejected"]
              [] req.route = "assign-handoff" ->
                   [pc |-> "as_update", arg |-> req.id, by |-> ADMIN_PHONE]
              [] req.route = "resolve-handoff" ->
                   [pc |-> "rs_select", arg |-> req.id, arg2 |-> "resolved by agent"]
              [] req.route = "resume-ai" -> resumeAIEntry(req.id, "admin-api")
              [] OTHER -> [pc |-> "sm_select", arg |-> req.id, response |-> <<"human", "reply">>]))
    /\ ops' = ops + 1
    /\ UNCHANGED <<lastIndex, now, store>>

\* every collaborator works
Api(req, maxTasks, maxOps) == ApiUnder(req, {}, maxTasks, maxOps)

(***************************************************************************)
(* checkRateLimit                                                          *)
(***************************************************************************)
RateLimitSelect(t) ==
    /\ At(t, "rl_select")
    /\ LET record == rate_limits[task[t].msg.chatId]
           decision == rateLimitDecision(record, task[t].windowStart)
       IN Set(t, [rl |-> record, decision |-> decision,
                  pc |-> IF decision = "reject" THEN "rl_reply" ELSE "rl_write"])
    /\ UNCHANGED <<lastIndex, now, store, ops>>

RateLimitWrite(t) ==
    /\ At(t, "rl_write")
    /\ rate_limits' = rateLimitWrite(rate_limits, task[t].msg.chatId, task[t].decision,
                                     task[t].rl, now)
    /\ Set(t, [pc |-> "conv_select"])
    /\ UNCHANGED <<lastIndex, now, conversations, messages, payments, handoff_queue, ops>>

\* RateLimitReply after a checkRateLimit that counts the rejected message as well
RateLimitReply_counted(t) ==
    /\ At(t, "rl_reply")
    /\ Set(t, [sent |-> Sent(t, task[t].msg.chatId, RATE_LIMIT_REPLY)]
              @@ Return([processed |-> FALSE, reason |-> "Rate limit exceeded"]))
    /\ rate_limits' = [rate_limits EXCEPT ![task[t].msg.chatId].message_count = @ + 1]
    /\ UNCHANGED <<lastIndex, now, conversations, messages, payments, handoff_queue, ops>>

RateLimitReply(t) ==
    /\ At(t, "rl_reply")
    /\ Set(t, [sent |-> Sent(t, task[t].msg.chatId, RATE_LIMIT_REPLY)]
              @@ Return([processed |-> FALSE, reason |-> "Rate limit exceeded"]))
    /\ UNCHANGED <<lastIndex, now, store, ops>>

(***************************************************************************)
(* getOrCreateConversation, then the branch of handleIncomingMessage       *)
(***************************************************************************)
ConversationSelect(t) ==
    /\ At(t, "conv_select")
    /\ LET existing == getConversation(conversations, task[t].msg.chatId)
       IN IF existing # NULL
          THEN Set(t, route(task[t].msg, existing))
          ELSE Set(t, [pc |-> "conv_insert"])
    /\ lastIndex' = IF "classifyIntent" \in task'[t].calls
                    THEN lastIndexAfter(task[t].msg.body, task[t].msg.hasMedia)
                    ELSE lastIndex
    /\ UNCHANGED <<now, store, ops>>

ConversationInsert(t) ==
    /\ At(t, "conv_insert")
    /\ LET m == task[t].msg
       IN \E outcome \in Outcomes(t, "store") :
             IF uniqueViolation(conversations, m.chatId) \/ outcome = "failed"
             THEN /\ Set(t, [pc |-> "catch_send", failure |-> "getOrCreateConversation"])
                  /\ UNCHANGED conversations
             ELSE /\ conversations' = insertConversation(conversations, m.chatId, m.phoneNumber)
                  /\ Set(t, route(m, conversations'[Len(conversations')]))
    /\ lastIndex' = IF "classifyIntent" \in task'[t].calls
                    THEN lastIndexAfter(task[t].msg.body, task[t].msg.hasMedia)
                    ELSE lastIndex
    /\ UNCHANGED <<now, messages, payments, handoff_queue, rate_limits, ops>>

\* CatchSend that logs the error and throws it again to the route
CatchSend_rethrow(t) ==
    /\ At(t, "catch_send")
    /\ Set(t, [pc |-> "done", thrown |-> TRUE])
    /\ UNCHANGED <<lastIndex, now, store, ops>>

\* the catch block of handleIncomingMessage
CatchSend(t) ==
    /\ At(t, "catch_send")
    /\ Set(t, [sent |-> Sent(t, task[t].msg.chatId, buildErrorResponse)]
              @@ Return([processed |-> FALSE, error |-> "error.message"]))
    /\ UNCHANGED <<lastIndex, now, store, ops>>

(***************************************************************************)
(* handleHumanHandoffMessage                                               *)
(***************************************************************************)
HandoffModeSave(t) ==
    /\ At(t, "hh_save")
    /\ LET m == task[t].msg
       IN messages' = saveMessage(messages, task[t].conv.id, m.chatId, "customer", m.body,
                                  mediaTypeOf(m), "HUMAN_HANDOFF")
    /\ Set(t, [pc |-> "hh_forward"])
    /\ UNCHANGED <<lastIndex, now, conversations, payments, handoff_queue, rate_limits, ops>>

\* HandoffModeForward that hands the conversation back to the AI after forwarding
HandoffModeForward_autoResume(t) ==
    /\ At(t, "hh_forward")
    /\ Set(t, [sent |-> Sent(t, ADMIN_CHAT,
                             <<"Message from", task[t].msg.phoneNumber>> \o task[t].msg.body)]
              @@ Return([processed |-> TRUE, handoff |-> TRUE, forwarded |-> TRUE]))
    /\ conversations' = updateConversationStatus(conversations, task[t].msg.chatId, "active")
    /\ UNCHANGED <<lastIndex, now, messages, payments, handoff_queue, rate_limits, ops>>

HandoffModeForward(t) ==
    /\ At(t, "hh_forward")
    /\ Set(t, [sent |-> Sent(t, ADMIN_CHAT,
                             <<"Message from", task[t].msg.phoneNumber>> \o task[t].msg.body)]
              @@ Return([processed |-> TRUE, handoff |-> TRUE, forwarded |-> TRUE]))
    /\ UNCHANGED <<lastIndex, now, store, ops>>

(***************************************************************************)
(* active mode: persist the classified message, handoff policy, intents    *)
(***************************************************************************)
InboundSave(t) ==
    /\ At(t, "in_save")
    /\ LET m == task[t].msg
           handoffCheck == shouldHandoff(task[t].cls)
       IN /\ messages' = saveMessage(messages, task[t].conv.id, m.chatId, "customer", m.body,
                                     mediaTypeOf(m), task[t].cls.intent)
          /\ IF handoffCheck.handoff
             THEN Set(t, initiateHandoffEntry(handoffCheck.reason, handoffCheck.priority,
                                              "handleIncomingMessage", task[t].calls))
             ELSE Set(t, [pc |-> "history", calls |-> task[t].calls \cup {"processIntent"}])
    /\ UNCHANGED <<lastIndex, now, conversations, payments, handoff_queue, rate_limits, ops>>

History(t) ==
    /\ At(t, "history")
    /\ LET history == getConversationHistory(messages, task[t].msg.chatId, HISTORY_LIMIT)
       IN Set(t, [history |-> history] @@ processIntent(task[t].cls, history, task[t].calls))
    /\ UNCHANGED <<lastIndex, now, store, ops>>

\* generateAIResponse: the generative backend answers; if every provider fails, or
\* generateResponse throws, the canned error text is the response
GenerateAIResponse(t) ==
    /\ At(t, "ai")
    /\ \E outcome \in Outcomes(t, "ai") :
          IF outcome = "failed"
          THEN Set(t, [pc |-> "reply_send", response |-> buildErrorResponse,
                       failure |-> "generateResponse"])
          ELSE \E text \in AIReplies : Set(t, [pc |-> "reply_send", response |-> text])
    /\ UNCHANGED <<lastIndex, now, store, ops>>

\* ReplySend that leaves the dispatch for later: the bot message is saved first
ReplySend_deferred(t) ==
    /\ At(t, "reply_send")
    /\ Set(t, [pc |-> "reply_save"])
    /\ UNCHANGED <<lastIndex, now, store, ops>>

ReplySend(t) ==
    /\ At(t, "reply_send")
    /\ Set(t, [pc |-> "reply_save", sent |-> Sent(t, task[t].msg.chatId, task[t].response)])
    /\ UNCHANGED <<lastIndex, now, store, ops>>

ReplySave(t) ==
    /\ At(t, "reply_save")
    /\ messages' = saveMessage(messages, task[t].conv.id, task[t].msg.chatId, "bot",
                               task[t].response, "text", task[t].cls.intent)
    /\ Set(t, Return([processed |-> TRUE, intent |-> task[t].cls.intent,
                      confidence |-> task[t].cls.confidence]))
    /\ UNCHANGED <<lastIndex, now, conversations, payments, handoff_queue, rate_limits, ops>>

(***************************************************************************)
(* handoffHandler.initiateHandoff (supabaseService.createHandoff first)    *)
(***************************************************************************)
CreateHandoffSelect(t) ==
    /\ At(t, "ch_select")
    /\ Set(t, [pc |-> "ch_status", conv2 |-> getConversation(conversations, task[t].msg.chatId)])
    /\ UNCHANGED <<lastIndex, now, store, ops>>

CreateHandoffStatus(t) ==
    /\ At(t, "ch_status")
    /\ conversations' = updateConversationStatus(conversations, task[t].msg.chatId, "human_handoff")
    /\ Set(t, [pc |-> "ch_insert"])
    /\ UNCHANGED <<lastIndex, now, messages, payments, handoff_queue, rate_limits, ops>>

\* the insert of createHandoff; its error is thrown and caught by initiateHandoff,
\* which returns the failure to its caller
CreateHandoffInsert(t) ==
    /\ At(t, "ch_insert")
    /\ \E outcome \in Outcomes(t, "store") :
          IF outcome = "failed"
          THEN /\ UNCHANGED handoff_queue
               /\ IF task[t].caller = "handleConfirmation"
                  THEN Set(t, [pc |-> "reply_send", failure |-> "createHandoff",
                               response |-> objectAsText(HandoffFailure)])
                  ELSE Set(t, [failure |-> "createHandoff"] @@ Return(HandoffFailure))
          ELSE /\ handoff_queue' = insertHandoff(handoff_queue, task[t].conv2, task[t].msg.chatId,
                                                 task[t].msg.phoneNumber, task[t].reason,
                                                 task[t].priority)
               /\ Set(t, [pc |-> "ih_sheet", handoffId |-> handoff_queue'[Len(handoff_queue')].id])
    /\ UNCHANGED <<lastIndex, now, conversations, messages, payments, rate_limits, ops>>

\* sheetsService.logHandoff: a failed append is logged and returned, never thrown
LogHandoff(t) ==
    /\ At(t, "ih_sheet")
    /\ \E outcome \in Outcomes(t, "sheets") : Set(t, [pc |-> "ih_notify", sheet |-> outcome])
    /\ UNCHANGED <<lastIndex, now, store, ops>>

\* notifyAdminHandoff
HandoffNotify(t) ==
    /\ At(t, "ih_notify")
    /\ \E outcome \in Outcomes(t, "notify") :
          Set(t, [pc |-> "ih_ack"]
                 @@ SentWith(t, ADMIN_CHAT, <<"HUMAN HANDOFF REQUEST", task[t].priority,
                                              task[t].msg.phoneNumber, task[t].reason,
                                              task[t].handoffId>>, outcome))
    /\ UNCHANGED <<lastIndex, now, store, ops>>

HandoffAck(t) ==
    /\ At(t, "ih_ack")
    /\ Set(t, [pc |-> "ih_save", sent |-> Sent(t, task[t].msg.chatId, buildHandoffResponse)])
    /\ UNCHANGED <<lastIndex, now, store, ops>>

\* the bot message is saved and initiateHandoff returns to its caller
HandoffSave(t) ==
    /\ At(t, "ih_save")
    /\ messages' = saveMessage(messages, task[t].conv.id, task[t].msg.chatId, "bot",
                               buildHandoffResponse, "text", "HUMAN_HANDOFF")
    /\ IF task[t].caller = "handleConfirmation"
       THEN Set(t, [pc |-> "reply_send",
                    response |-> objectAsText(HandoffResult(task[t].handoffId))])
       ELSE Set(t, Return(HandoffResult(task[t].handoffId)))
    /\ UNCHANGED <<lastIndex, now, conversations, payments, handoff_queue, rate_limits, ops>>

(***************************************************************************)
(* paymentHandler.handlePaymentConfirmation                                *)
(***************************************************************************)
CreatePaymentSelect(t) ==
    /\ At(t, "cp_select")
    /\ Set(t, [pc |-> "cp_insert", conv2 |-> getConversation(conversations, task[t].msg.chatId)])
    /\ UNCHANGED <<lastIndex, now, store, ops>>

\* the insert of createPayment; its error is thrown and caught by
\* handlePaymentConfirmation, which returns the canned error text
CreatePaymentInsert(t) ==
    /\ At(t, "cp_insert")
    /\ \E outcome \in Outcomes(t, "store") :
          IF outcome = "failed"
          THEN /\ UNCHANGED payments
               /\ Set(t, [pc |-> "reply_send", response |-> buildErrorResponse,
                          failure |-> "createPayment"])
          ELSE /\ payments' = insertPayment(payments, task[t].conv2, task[t].msg.chatId,
                                            task[t].msg.phoneNumber,
                                            IF task[t].msg.hasMedia THEN "pending_download"
                                            ELSE "null")
               /\ Set(t, [pc |-> "cp_sheet", arg |-> payments'[Len(payments')].id])
    /\ UNCHANGED <<lastIndex, now, conversations, messages, handoff_queue, rate_limits, ops>>

\* LogPayment whose failure is thrown to the catch block of handlePaymentConfirmation
LogPayment_throws(t) ==
    /\ At(t, "cp_sheet")
    /\ \E outcome \in Outcomes(t, "sheets") :
          IF outcome = "failed"
          THEN Set(t, [pc |-> "reply_send", sheet |-> outcome, response |-> buildErrorResponse])
          ELSE Set(t, [pc |-> "np_notify", sheet |-> outcome])
    /\ UNCHANGED <<lastIndex, now, store, ops>>

\* sheetsService.logPayment: a failed append is logged and returned, never thrown
LogPayment(t) ==
    /\ At(t, "cp_sheet")
    /\ \E outcome \in Outcomes(t, "sheets") : Set(t, [pc |-> "np_notify", sheet |-> outcome])
    /\ UNCHANGED <<lastIndex, now, store, ops>>

\* notifyAdminNewPayment, then the canned reply goes back to handleIncomingMessage
PaymentNotify(t) ==
    /\ At(t, "np_notify")
    /\ \E outcome \in Outcomes(t, "notify") :
          Set(t, [pc |-> "reply_send", response |-> buildPaymentReceivedResponse]
                 @@ SentWith(t, ADMIN_CHAT, <<"NEW PAYMENT RECEIVED", task[t].msg.phoneNumber,
                                              task[t].arg>>, outcome))
    /\ UNCHANGED <<lastIndex, now, store, ops>>

(***************************************************************************)
(* paymentHandler.approvePayment                                           *)
(***************************************************************************)
\* approveDecision without the guard on the status
approveDecision_noStatusCheck(payment) ==
    IF payment = NULL THEN "ap_notfound" ELSE "ap_update"

\* what approvePayment does with the payment it read
approveDecision(payment) ==
    IF payment = NULL THEN "ap_notfound"
    ELSE IF payment.status # "pending" THEN "ap_already"
    ELSE "ap_update"

ApproveSelect(t) ==
    /\ At(t, "ap_select")
    /\ LET payment == getById(payments, task[t].arg)
       IN Set(t, [row |-> payment, pc |-> approveDecision(payment)])
    /\ UNCHANGED <<lastIndex, now, store, ops>>

ApproveNotFound(t) ==
    /\ At(t, "ap_notfound")
    /\ Set(t, [sent |-> Sent(t, ADMIN_CHAT, <<"Payment not found", task[t].arg>>)]
              @@ Return([success |-> FALSE, error |-> "Payment not found"]))
    /\ UNCHANGED <<lastIndex, now, store, ops>>

ApproveAlready(t) ==
    /\ At(t, "ap_already")
    /\ Set(t, [sent |-> Sent(t, ADMIN_CHAT, <<"Payment already", task[t].row.status>>)]
              @@ Return([success |-> FALSE, error |-> "Payment already processed"]))
    /\ UNCHANGED <<lastIndex, now, store, ops>>

\* supabaseService.approvePayment returns !error and does not throw; the handler does
\* not look at what it returns
ApproveUpdate(t) ==
    /\ At(t, "ap_update")
    /\ \E outcome \in Outcomes(t, "update") :
          IF outcome = "failed"
          THEN /\ UNCHANGED payments
               /\ Set(t, [pc |-> "ap_customer", failure |-> "approvePayment"])
          ELSE /\ payments' = storeApprovePayment(payments, task[t].arg, task[t].by)
               /\ Set(t, [pc |-> "ap_customer"])
    /\ UNCHANGED <<lastIndex, now, conversations, messages, handoff_queue, rate_limits, ops>>

ApproveCustomerSend(t) ==
    /\ At(t, "ap_customer")
    /\ Set(t, [pc |-> "ap_admin", sent |-> Sent(t, task[t].row.chat_id, PAYMENT_CONFIRMED_REPLY)])
    /\ UNCHANGED <<lastIndex, now, store, ops>>

ApproveAdminSend(t) ==
    /\ At(t, "ap_admin")
    /\ Set(t, [sent |-> Sent(t, ADMIN_CHAT, <<"Payment approved for", task[t].row.phone_number>>)]
              @@ Return([success |-> TRUE, paymentId |-> task[t].arg]))
    /\ UNCHANGED <<lastIndex, now, store, ops>>

(***************************************************************************)
(* paymentHandler.rejectPayment                                            *)
(***************************************************************************)
RejectSelect(t) ==
    /\ At(t, "rj_select")
    /\ LET payment == getById(payments, task[t].arg)
       IN Set(t, [row |-> payment, pc |-> IF payment = NULL THEN "rj_notfound" ELSE "rj_update"])
    /\ UNCHANGED <<lastIndex, now, store, ops>>

RejectNotFound(t) ==
    /\ At(t, "rj_notfound")
    /\ Set(t, [sent |-> Sent(t, ADMIN_CHAT, <<"Payment not found", task[t].arg>>)]
              @@ Return([success |-> FALSE, error |-> "Payment not found"]))
    /\ UNCHANGED <<lastIndex, now, store, ops>>

\* supabaseService.rejectPayment returns !error and does not throw; the handler does
\* not look at what it returns
RejectUpdate(t) ==
    /\ At(t, "rj_update")
    /\ \E outcome \in Outcomes(t, "update") :
          IF outcome = "failed"
          THEN /\ UNCHANGED payments
               /\ Set(t, [pc |-> "rj_customer", failure |-> "rejectPayment"])
          ELSE /\ payments' = storeRejectPayment(payments, task[t].arg, task[t].arg2,
                                                 task[t].by)
               /\ Set(t, [pc |-> "rj_customer"])
    /\ UNCHANGED <<lastIndex, now, conversations, messages, handoff_queue, rate_limits, ops>>

RejectCustomerSend(t) ==
    /\ At(t, "rj_customer")
    /\ Set(t, [pc |-> "rj_admin",
               sent |-> Sent(t, task[t].row.chat_id, buildPaymentRejectedResponse(task[t].arg2))])
    /\ UNCHANGED <<lastIndex, now, store, ops>>

RejectAdminSend(t) ==
    /\ At(t, "rj_admin")
    /\ Set(t, [sent |-> Sent(t, ADMIN_CHAT, <<"Payment rejected", task[t].arg2>>)]
              @@ Return([success |-> TRUE, paymentId |-> task[t].arg]))
    /\ UNCHANGED <<lastIndex, now, store, ops>>

(***************************************************************************)
(* handoffHandler.resumeAI (supabaseService.resumeAI first)                *)
(***************************************************************************)
\* chatIdOrPhone is null: chatId.includes throws and the catch block answers
ResumeError(t) ==
    /\ At(t, "ra_error")
    /\ Set(t, [sent |-> Sent(t, ADMIN_CHAT, <<"Error", "error.message">>)]
              @@ Return([success |-> FALSE, error |-> "error.message"]))
    /\ UNCHANGED <<lastIndex, now, store, ops>>

ResumeStatus(t) ==
    /\ At(t, "ra_status")
    /\ conversations' = updateConversationStatus(conversations, task[t].arg, "active")
    /\ Set(t, [pc |-> "ra_resolve"])
    /\ UNCHANGED <<lastIndex, now, messages, payments, handoff_queue, rate_limits, ops>>

ResumeResolve(t) ==
    /\ At(t, "ra_resolve")
    /\ handoff_queue' = storeResumeAI(handoff_queue, task[t].arg)
    /\ Set(t, [pc |-> "ra_customer"])
    /\ UNCHANGED <<lastIndex, now, conversations, messages, payments, rate_limits, ops>>

ResumeCustomerSend(t) ==
    /\ At(t, "ra_customer")
    /\ Set(t, [pc |-> "ra_admin", sent |-> Sent(t, task[t].arg, RESUME_REPLY)])
    /\ UNCHANGED <<lastIndex, now, store, ops>>

ResumeAdminSend(t) ==
    /\ At(t, "ra_admin")
    /\ Set(t, [sent |-> Sent(t, ADMIN_CHAT, <<"AI resumed for", task[t].arg>>)]
              @@ Return([success |-> TRUE]))
    /\ UNCHANGED <<lastIndex, now, store, ops>>

(***************************************************************************)
(* handoffHandler.assignHandoff and resolveHandoff                         *)
(***************************************************************************)
\* AssignUpdate that also hands the conversation of the request back to the AI
AssignUpdate_flipsStatus(t) ==
    /\ At(t, "as_update")
    /\ handoff_queue' = storeAssignHandoff(handoff_queue, task[t].arg, task[t].by)
    /\ conversations' =
          (LET h == getById(handoff_queue, task[t].arg)
           IN IF h = NULL THEN conversations
              ELSE updateConversationStatus(conversations, h.chat_id, "active"))
    /\ Set(t, [pc |-> "as_send"])
    /\ UNCHANGED <<lastIndex, now, messages, payments, rate_limits, ops>>

AssignUpdate(t) ==
    /\ At(t, "as_update")
    /\ handoff_queue' = storeAssignHandoff(handoff_queue, task[t].arg, task[t].by)
    /\ Set(t, [pc |-> "as_send"])
    /\ UNCHANGED <<lastIndex, now, conversations, messages, payments, rate_limits, ops>>

AssignSend(t) ==
    /\ At(t, "as_send")
    /\ Set(t, [sent |-> Sent(t, ADMIN_CHAT, <<"Handoff assigned", task[t].arg, task[t].by>>)]
              @@ Return([success |-> TRUE]))
    /\ UNCHANGED <<lastIndex, now, store, ops>>

ResolveSelect(t) ==
    /\ At(t, "rs_select")
    /\ LET handoff == getById(handoff_queue, task[t].arg)
       IN Set(t, [row |-> handoff, pc |-> IF handoff = NULL THEN "rs_update" ELSE "rs_status"])
    /\ UNCHANGED <<lastIndex, now, store, ops>>

ResolveStatus(t) ==
    /\ At(t, "rs_status")
    /\ conversations' = updateConversationStatus(conversations, task[t].row.chat_id, "active")
    /\ Set(t, [pc |-> "rs_update"])
    /\ UNCHANGED <<lastIndex, now, messages, payments, handoff_queue, rate_limits, ops>>

ResolveUpdate(t) ==
    /\ At(t, "rs_update")
    /\ handoff_queue' = storeResolveHandoff(handoff_queue, task[t].arg, task[t].arg2)
    /\ Set(t, [pc |-> "rs_send"])
    /\ UNCHANGED <<lastIndex, now, conversations, messages, payments, rate_limits, ops>>

ResolveSend(t) ==
    /\ At(t, "rs_send")
    /\ Set(t, [sent |-> Sent(t, ADMIN_CHAT, <<"Handoff resolved", task[t].arg>>)]
              @@ Return([success |-> TRUE]))
    /\ UNCHANGED <<lastIndex, now, store, ops>>

(***************************************************************************)
(* sendStats, sendAdminHelp, the default branch of handleAdminCommand      *)
(***************************************************************************)
getStats ==
    [totalConversations |-> Len(conversations),
     activeConversations |-> Len(SelectSeq(conversations, LAMBDA r : r.status = "active")),
     pendingHandoffs |-> Len(SelectSeq(handoff_queue, LAMBDA r : r.status = "pending")),
     pendingPayments |-> Len(SelectSeq(payments, LAMBDA r : r.status = "pending")),
     totalMessages |-> Len(messages)]

StatsSelect(t) ==
    /\ At(t, "stats_select")
    /\ Set(t, [pc |-> "stats_send", row |-> getStats])
    /\ UNCHANGED <<lastIndex, now, store, ops>>

StatsSend(t) ==
    /\ At(t, "stats_send")
    /\ Set(t, [sent |-> Sent(t, task[t].msg.chatId, <<"System Statistics", task[t].row>>)]
              @@ Return([processed |-> TRUE, action |-> "stats"]))
    /\ UNCHANGED <<lastIndex, now, store, ops>>

HelpSend(t) ==
    /\ At(t, "help_send")
    /\ Set(t, [sent |-> Sent(t, task[t].msg.chatId, <<"Admin Commands">>)]
              @@ Return([processed |-> TRUE, action |-> "help"]))
    /\ UNCHANGED <<lastIndex, now, store, ops>>

UnknownSend(t) ==
    /\ At(t, "unknown_send")
    /\ Set(t, [sent |-> Sent(t, task[t].msg.chatId, <<"Unknown command. Type /help">>)]
              @@ Return([processed |-> TRUE, unknown |-> TRUE]))
    /\ UNCHANGED <<lastIndex, now, store, ops>>

(***************************************************************************)
(* sendMessageToCustomer (POST /admin/send-message)                        *)
(***************************************************************************)
SendMessageSelect(t) ==
    /\ At(t, "sm_select")
    /\ LET conversation == getConversation(conversations, task[t].arg)
       IN IF conversation = NULL
          THEN Set(t, Return([error |-> "Conversation not found"]))
          ELSE Set(t, [pc |-> "sm_send", conv |-> conversation])
    /\ UNCHANGED <<lastIndex, now, store, ops>>

SendMessageSend(t) ==
    /\ At(t, "sm_send")
    /\ Set(t, [pc |-> "sm_save", sent |-> Sent(t, task[t].arg, task[t].response)])
    /\ UNCHANGED <<lastIndex, now, store, ops>>

SendMessageSave(t) ==
    /\ At(t, "sm_save")
    /\ messages' = saveMessage(messages, task[t].conv.id, task[t].arg, "human",
                               task[t].response, "text", "HUMAN_REPLY")
    /\ Set(t, Return([success |-> TRUE]))
    /\ UNCHANGED <<lastIndex, now, conversations, payments, handoff_queue, rate_limits, ops>>

(***************************************************************************)
(* Environment: time passes, a finished request leaves                     *)
(***************************************************************************)
Tick ==
    /\ now < MaxTime
    /\ now' = now + 1
    /\ UNCHANGED <<store, task, ops, lastIndex>>

Finish(t) ==
    /\ At(t, "done")
    /\ task' = [task EXCEPT ![t] = Idle]
    /\ UNCHANGED <<lastIndex, now, store, ops>>

\* the steps of handling a webhook message in active or handoff mode
MessageStep(t) ==
    \/ RateLimitSelect(t) \/ RateLimitWrite(t) \/ RateLimitReply(t)
    \/ ConversationSelect(t) \/ ConversationInsert(t)
    \/ HandoffModeSave(t) \/ HandoffModeForward(t)
    \/ InboundSave(t) \/ History(t) \/ ReplySend(t) \/ ReplySave(t)
    \/ CreateHandoffSelect(t) \/ CreateHandoffStatus(t) \/ CreateHandoffInsert(t)
    \/ LogHandoff(t) \/ HandoffNotify(t) \/ HandoffAck(t) \/ HandoffSave(t)
    \/ Finish(t)

\* the steps of the other intent handlers and of the admin handlers
HandlerStep(t) ==
    \/ GenerateAIResponse(t)
    \/ CreatePaymentSelect(t) \/ CreatePaymentInsert(t) \/ LogPayment(t) \/ PaymentNotify(t)
    \/ ApproveSelect(t) \/ ApproveNotFound(t) \/ ApproveAlready(t) \/ ApproveUpdate(t)
    \/ ApproveCustomerSend(t) \/ ApproveAdminSend(t)
    \/ RejectSelect(t) \/ RejectNotFound(t) \/ RejectUpdate(t)
    \/ RejectCustomerSend(t) \/ RejectAdminSend(t)
    \/ ResumeError(t) \/ ResumeStatus(t) \/ ResumeResolve(t)
    \/ ResumeCustomerSend(t) \/ ResumeAdminSend(t)
    \/ AssignUpdate(t) \/ AssignSend(t)
    \/ ResolveSelect(t) \/ ResolveStatus(t) \/ ResolveUpdate(t) \/ ResolveSend(t)
    \/ StatsSelect(t) \/ StatsSend(t) \/ HelpSend(t) \/ UnknownSend(t)
    \/ SendMessageSelect(t) \/ SendMessageSend(t) \/ SendMessageSave(t)

\* Every request of the environment, handled one at a time: the next request is
\* accepted when the previous one has returned.  (The insert of
\* getOrCreateConversation cannot collide then, so the catch block is not taken.)
Next ==
    \/ \E p \in Payloads : Webhook(p, 1, MaxOps)
    \/ \E r \in ApiRequests : Api(r, 1, MaxOps)
    \/ \E t \in Tasks : MessageStep(t)
    \/ \E t \in Tasks : HandlerStep(t)
    \/ Tick

Spec == Init /\ [][Next]_vars

\* Webhook messages of one customer handled concurrently, within one window
ConcurrentPayloads == {Payload(CUSTOMER_CHAT, b, FALSE) : b \in {<<"hi">>, <<"agent">>}}

NextConcurrent ==
    \/ \E p \in ConcurrentPayloads : Webhook(p, NumTasks, MaxConcurrentOps)
    \/ \E t \in Tasks : MessageStep(t)
    \/ \E t \in Tasks : CatchSend(t)

SpecConcurrent == Init /\ [][NextConcurrent]_vars

\* Messages of one customer, one at a time, while collaborators may fail
FaultPayloads ==
    {Payload(CUSTOMER_CHAT, b, FALSE) : b \in {<<"paid">>, <<"yes">>, <<"agent">>, <<"thanks">>}}

FaultScenarios == SUBSET (FaultKinds \ {"update"})

MaxFaultOps == 3

NextFaults ==
    \/ \E p \in FaultPayloads, f \in FaultScenarios : WebhookUnder(p, f, 1, MaxFaultOps)
    \/ \E t \in Tasks : MessageStep(t)
    \/ \E t \in Tasks : CatchSend(t)
    \/ \E t \in Tasks : GenerateAIResponse(t)
    \/ \E t \in Tasks : CreatePaymentSelect(t) \/ CreatePaymentInsert(t)
                          \/ LogPayment(t) \/ PaymentNotify(t)

SpecFaults == Init /\ [][NextFaults]_vars

(***************************************************************************)
(* The operator's decisions on a payment that waits for verification       *)
(***************************************************************************)
MaxPaymentOps == 2

\* the store after the customer's 'paid' was handled: the conversation, both messages
\* and the pending payment
InitPayments ==
    /\ lastIndex = [id \in PatternIds |-> 0]
    /\ now = 0
    /\ conversations = insertConversation(<<>>, CUSTOMER_CHAT, CUSTOMER_PHONE)
    /\ messages = saveMessage(saveMessage(<<>>, "1", CUSTOMER_CHAT, "customer", <<"paid">>,
                                          "text", classifyIntent(<<"paid">>, FALSE).intent),
                              "1", CUSTOMER_CHAT, "bot", buildPaymentReceivedResponse, "text",
                              classifyIntent(<<"paid">>, FALSE).intent)
    /\ payments = insertPayment(<<>>, conversations[1], CUSTOMER_CHAT, CUSTOMER_PHONE, "null")
    /\ handoff_queue = <<>>
    /\ rate_limits = [c \in ChatIds |->
                        IF c = CUSTOMER_CHAT THEN [message_count |-> 1, window_start |-> 0]
                        ELSE NULL]
    /\ task = [t \in Tasks |-> Idle]
    /\ ops = 0

PaymentRequests ==
    {[route |-> r, id |-> i] : r \in {"approve-payment", "reject-payment"}, i \in {"1", "2"}}

\* the calls are handled concurrently and their results are kept
NextPayments ==
    \/ \E r \in PaymentRequests, f \in SUBSET {"update"} : ApiUnder(r, f, NumTasks, MaxPaymentOps)
    \/ \E t \in Tasks : ApproveSelect(t) \/ ApproveNotFound(t) \/ ApproveAlready(t)
                          \/ ApproveUpdate(t) \/ ApproveCustomerSend(t) \/ ApproveAdminSend(t)
    \/ \E t \in Tasks : RejectSelect(t) \/ RejectNotFound(t) \/ RejectUpdate(t)
                          \/ RejectCustomerSend(t) \/ RejectAdminSend(t)

SpecPayments == InitPayments /\ [][NextPayments]_vars

(***************************************************************************)
(* A customer whose conversation already holds earlier exchanges           *)
(***************************************************************************)
MaxPairs == 6
MaxHistoryOps == 3

\* replies the generation has given in the earlier exchanges
HistoryReplies == AIReplies \cup {<<"team", "order", "confirm">>}

\* one earlier exchange: the customer's message as InboundSave stores it, then the
\* reply as ReplySave stores it
exchange(msgs, body, reply) ==
    LET intent == classifyIntent(body, FALSE).intent
    IN saveMessage(saveMessage(msgs, "1", CUSTOMER_CHAT, "customer", body, "text", intent),
                   "1", CUSTOMER_CHAT, "bot", reply, "text", intent)

RECURSIVE exchanges(_, _, _)
\* n earlier exchanges of which the last two replies are nextToLast and last
exchanges(n, nextToLast, last) ==
    IF n = 0 THEN <<>>
    ELSE exchange(exchanges(n - 1, <<"ai", "answer">>, nextToLast), <<"thanks">>, last)

\* the store after n exchanges of an earlier window, everything handled and returned
InitHistory ==
    /\ now = 0
    /\ payments = <<>>
    /\ handoff_queue = <<>>
    /\ task = [t \in Tasks |-> Idle]
    /\ ops = 0
    /\ lastIndex = [id \in PatternIds |-> 0]
    /\ \E n \in 0..MaxPairs, nextToLast \in HistoryReplies, last \in HistoryReplies :
          /\ n < 2 => nextToLast = <<"ai", "answer">>
          /\ n < 1 => last = <<"ai", "answer">>
          /\ messages = exchanges(n, nextToLast, last)
          /\ conversations = IF n = 0 THEN <<>>
                             ELSE insertConversation(<<>>, CUSTOMER_CHAT, CUSTOMER_PHONE)
          /\ rate_limits = [c \in ChatIds |->
                              IF n > 0 /\ c = CUSTOMER_CHAT
                              THEN [message_count |-> 1, window_start |-> 0 - windowMs - 1]
                              ELSE NULL]

HistoryPayloads == {Payload(CUSTOMER_CHAT, b, FALSE) : b \in {<<"yes">>, <<"thanks">>}}

NextHistory ==
    \/ \E p \in HistoryPayloads : Webhook(p, 1, MaxHistoryOps)
    \/ \E t \in Tasks : MessageStep(t)
    \/ \E t \in Tasks : GenerateAIResponse(t)

SpecHistory == InitHistory /\ [][NextHistory]_vars

(***************************************************************************)
(* The classifier on its own: classifyIntent and shouldHandoff applied to  *)
(* message texts and to classifications drawn from bounded sets            *)
(***************************************************************************)
MaxWords == 2

ClassifyWords == {"hi", "hello", "Agent", "agent", "useless", "Useless", "price", "package",
                  "paid", "logo", "design", "cancel", "thanks", Bangs}

\* texts of at most MaxWords words, and the longer texts of the scenarios
ClassifyTexts ==
    UNION {[1..n -> ClassifyWords] : n \in 0..MaxWords}
    \cup {<<"mujhe", "is", "package", "ka", "price", "batao">>,
          <<"mujhe", "is", "package", "ka", "rate", "batao">>,
          <<"mujhe", "is", "logo", "design", "ka", "batao">>,
          <<"useless", "package", "ka", "price">>}

\* classification objects as shouldHandoff may be given them
Classifications ==
    {[intent |-> INTENTS[i], confidence |-> 70,
      metadata |-> IF f THEN Metadata({"frustrated"}, <<>>, <<>>, "", <<>>, TRUE)
                   ELSE EmptyMetadata] : i \in DOMAIN INTENTS, f \in BOOLEAN}

InitClassify ==
    /\ lastIndex = [id \in PatternIds |-> 0]
    /\ now = 0
    /\ conversations = <<>>
    /\ messages = <<>>
    /\ payments = <<>>
    /\ handoff_queue = <<>>
    /\ rate_limits = [c \in ChatIds |-> NULL]
    /\ ops = 0
    /\ \/ \E text \in ClassifyTexts, hasMedia \in BOOLEAN :
             LET m == parseWebhookPayload(Payload(CUSTOMER_CHAT, text, hasMedia))
             IN /\ isProcessableMessage(m)
                /\ task = [t \in Tasks |->
                             IF t = 1 THEN [op |-> "classifyIntent", pc |-> "classify", msg |-> m]
                                           @@ Idle
                             ELSE Idle]
       \/ \E c \in Classifications :
             task = [t \in Tasks |->
                       IF t = 1 THEN [op |-> "shouldHandoff", pc |-> "should_handoff", cls |-> c]
                                     @@ Idle
                       ELSE Idle]

\* classifyIntent(message.body, { hasMedia: message.hasMedia })
Classify(t) ==
    /\ At(t, "classify")
    /\ Set(t, [pc |-> "should_handoff",
               cls |-> classifyIntent(task[t].msg.body, task[t].msg.hasMedia)])
    /\ lastIndex' = lastIndexAfter(task[t].msg.body, task[t].msg.hasMedia)
    /\ UNCHANGED <<now, store, ops>>

\* shouldHandoff(message.body, classification)
ShouldHandoff(t) ==
    /\ At(t, "should_handoff")
    /\ Set(t, Return(shouldHandoff(task[t].cls)))
    /\ UNCHANGED <<lastIndex, now, store, ops>>

NextClassify ==
    \/ \E t \in Tasks : Classify(t)
    \/ \E t \in Tasks : ShouldHandoff(t)

SpecClassify == InitClassify /\ [][NextClassify]_vars

(***************************************************************************)
(* classifyIntent called again and again in one process                    *)
(***************************************************************************)
MaxCalls == 3

CallTexts == {<<"price">>, <<"hi">>, <<"basic", "package">>, <<"useless">>, <<"thanks">>,
              <<"price", "price">>}

\* the next call of classifyIntent(text, { hasMedia }): the function is synchronous, so
\* a call starts when the call before it has returned; the task keeps what was passed
\* and the number of the call
CallClassify(t, text, hasMedia) ==
    /\ ops < MaxCalls
    /\ \A u \in Tasks : ~At(u, "classify")
    /\ task' = [task EXCEPT ![t] =
                  [op |-> "classifyIntent", pc |-> "classify", call |-> ops + 1,
                   msg |-> parseWebhookPayload(Payload(CUSTOMER_CHAT, text, hasMedia))]
                  @@ Idle]
    /\ ops' = ops + 1
    /\ UNCHANGED <<lastIndex, now, store>>

\* the call returns its result object
ClassifyReturn(t) ==
    /\ At(t, "classify")
    /\ Set(t, [pc |-> "done",
               cls |-> classifyIntent(task[t].msg.body, task[t].msg.hasMedia)])
    /\ lastIndex' = lastIndexAfter(task[t].msg.body, task[t].msg.hasMedia)
    /\ UNCHANGED <<now, store, ops>>

NextCalls ==
    \/ \E t \in Tasks, text \in CallTexts, hasMedia \in BOOLEAN : CallClassify(t, text, hasMedia)
    \/ \E t \in Tasks : ClassifyReturn(t)

SpecCalls == Init /\ [][NextCalls]_vars

(***************************************************************************)
(* Properties                                                              *)
(***************************************************************************)
IsDone(t) == task[t].pc = "done"

\* the task handles a processable webhook message that does not come from the operator
IsCustomerMessage(t) ==
    /\ task[t].op = "message"
    /\ task[t].msg # NULL
    /\ task[t].msg.phoneNumber # ADMIN_PHONE

\* the admin command a webhook message of the operator parses to, NULL otherwise
AdminCommandOf(t) ==
    IF task[t].op = "message" /\ task[t].msg # NULL /\ task[t].msg.phoneNumber = ADMIN_PHONE
    THEN parseAdminCommand(task[t].msg.body)
    ELSE NULL

storedStatus(chatId) ==
    LET c == getConversation(conversations, chatId)
    IN IF c = NULL THEN "none" ELSE c.status

\* the status of the conversation when the message was handled: the one the handler
\* read, or the stored one if the handler returned before reading it
StatusOnArrival(t) ==
    IF task[t].conv # NULL THEN task[t].conv.status ELSE storedStatus(task[t].msg.chatId)

customerRows(chatId) ==
    Len(SelectSeq(messages, LAMBDA r : r.chat_id = chatId /\ r.sender = "customer"))

activeHandoffs(queue, chatId) ==
    {i \in DOMAIN queue : queue[i].chat_id = chatId /\ queue[i].status \in ActiveHandoffStatus}

\* the handler returned processed=true without classifying, persisted the message as
\* a customer message and forwarded its body to the operator chat, and sent nothing else
HandoffForwarded(t) ==
    LET m == task[t].msg
    IN /\ task[t].ret = [processed |-> TRUE, handoff |-> TRUE, forwarded |-> TRUE]
       /\ task[t].cls = NULL
       /\ task[t].calls \cap {"classifyIntent", "processIntent", "initiateHandoff"} = {}
       /\ Len(messages) > 0
       /\ LET last == messages[Len(messages)]
          IN /\ last.chat_id = m.chatId
             /\ last.sender = "customer"
             /\ last.message = m.body
       /\ task[t].sent = <<[to |-> ADMIN_CHAT, text |-> <<"Message from", m.phoneNumber>> \o m.body]>>

\* C1 as stated: every processable customer message whose conversation is in
\* human_handoff returns processed=true, is not classified, is persisted and forwarded
C1_Original ==
    \A t \in Tasks :
        (IsDone(t) /\ IsCustomerMessage(t) /\ StatusOnArrival(t) = "human_handoff")
            => HandoffForwarded(t)

\* C1 (amended): every processable customer message that passes the rate-limit check
\* and whose conversation is in human_handoff returns processed=true, is never
\* classified or given to an intent handler, is persisted as a customer message and
\* has its body forwarded verbatim to the operator chat
C1_Theorem ==
    \A t \in Tasks :
        (IsDone(t) /\ IsCustomerMessage(t) /\ StatusOnArrival(t) = "human_handoff"
                   /\ task[t].decision # "reject")
            => HandoffForwarded(t)

C1_Witness ==
    \E t \in Tasks :
        /\ IsDone(t) /\ IsCustomerMessage(t) /\ StatusOnArrival(t) = "human_handoff"
        /\ task[t].decision # "reject"
        /\ task[t].ret = [processed |-> TRUE, handoff |-> TRUE, forwarded |-> TRUE]
        /\ Len(task[t].sent) = 1

\* the step is the status update of an explicit resume action: resumeAI reached by the
\* admin command or the admin route, or resolveHandoff reached by its route
IsResumeStep(t) ==
    /\ task'[t].pc # task[t].pc
    /\ \/ /\ task[t].pc = "ra_status"
          /\ \/ task[t].op = "resume-ai"
             \/ (AdminCommandOf(t) # NULL /\ AdminCommandOf(t).action = "resume_ai")
       \/ /\ task[t].pc = "rs_status"
          /\ task[t].op = "resolve-handoff"

\* C2: a conversation goes from human_handoff to active only in the step of an
\* explicit resume action (resumeAI by admin command or admin route, resolveHandoff)
C2_Theorem ==
    [][\A i \in DOMAIN conversations :
          (/\ conversations[i].status = "human_handoff"
           /\ i \in DOMAIN conversations'
           /\ conversations'[i].status = "active")
          => \E t \in Tasks :
                /\ IsResumeStep(t)
                /\ conversations[i].chat_id =
                      (IF task[t].pc = "ra_status" THEN task[t].arg ELSE task[t].row.chat_id)]_vars

\* resumeAI has just set the conversation back to active and the handoff request
\* that put it in human_handoff is still open
C2_Witness ==
    \E t \in Tasks :
        /\ task[t].pc = "ra_resolve"
        /\ storedStatus(task[t].arg) = "active"
        /\ activeHandoffs(handoff_queue, task[t].arg) # {}

\* C3: approvePayment. No payment of that id: failure "not found", the store
\* unchanged.  Status not pending: failure "already processed", the store unchanged.
\* Otherwise the status becomes approved and the call returns success.
C3_Theorem ==
    [][\A t \in Tasks :
          LET before == getById(payments, task[t].arg)
              after == getById(payments', task[t].arg)
              moved == task'[t].pc # task[t].pc
          IN /\ (task[t].pc = "ap_select" /\ moved) =>
                    /\ store' = store
                    /\ task'[t].pc = (IF before = NULL THEN "ap_notfound"
                                      ELSE IF before.status # "pending" THEN "ap_already"
                                      ELSE "ap_update")
             /\ (task[t].pc = "ap_notfound" /\ moved) =>
                    /\ store' = store
                    /\ before = NULL
                    /\ task'[t].pc = "done"
                    /\ task'[t].ret = [success |-> FALSE, error |-> "Payment not found"]
             /\ (task[t].pc = "ap_already" /\ moved) =>
                    /\ store' = store
                    /\ before.status # "pending"
                    /\ task'[t].pc = "done"
                    /\ task'[t].ret = [success |-> FALSE, error |-> "Payment already processed"]
             /\ (task[t].pc = "ap_update" /\ moved) =>
                    /\ before.status = "pending"
                    /\ after.status = "approved"
             /\ (task[t].pc = "ap_admin" /\ moved) =>
                    /\ after.status = "approved"
                    /\ task'[t].pc = "done"
                    /\ task'[t].ret = [success |-> TRUE, paymentId |-> task[t].arg]]_vars

\* the second approval of a payment has failed and the payment is still approved
C3_Witness ==
    \E t \in Tasks :
        /\ IsDone(t)
        /\ task[t].ret = [success |-> FALSE, error |-> "Payment already processed"]
        /\ task[t].row.status = "approved"
        /\ getById(payments, task[t].arg).status = "approved"

\* C4 as stated: a payment whose status is approved or rejected keeps that status
C4_OneWay ==
    [][\A i \in DOMAIN payments :
          payments[i].status \in {"approved", "rejected"}
              => payments'[i].status = payments[i].status]_vars

\* C5: messages of one chat handled one at a time.  Inside the first window the
\* message that finds fewer than maxRequests earlier messages passes and the one that
\* finds maxRequests is rejected; a rejected message is answered with the rate-limit
\* reply; a message that finds the window expired passes, and the counter is 1 with
\* a new window start.
C5_Theorem ==
    \A t \in Tasks :
        IsCustomerMessage(t) =>
            LET c == task[t].msg.chatId
                n == customerRows(c)
            IN /\ (task[t].pc \in {"rl_write", "rl_reply"} /\ now <= windowMs) =>
                      /\ n <= maxRequests
                      /\ (n < maxRequests => task[t].pc = "rl_write")
                      /\ (n = maxRequests => task[t].pc = "rl_reply")
               /\ (task[t].pc \in {"rl_write", "rl_reply"} /\ task[t].rl # NULL
                     /\ task[t].rl.window_start < task[t].windowStart) =>
                      task[t].decision = "reset"
               /\ (task[t].decision = "reject" /\ task[t].pc \notin {"rl_select", "rl_reply"}) =>
                      /\ IsDone(t)
                      /\ task[t].ret = [processed |-> FALSE, reason |-> "Rate limit exceeded"]
                      /\ task[t].sent = <<[to |-> c, text |-> RATE_LIMIT_REPLY]>>
               /\ (task[t].decision = "reset" /\ task[t].pc \notin {"rl_select", "rl_write"}) =>
                      /\ rate_limits[c].message_count = 1
                      /\ rate_limits[c].window_start > task[t].rl.window_start + windowMs
                      /\ rate_limits[c].window_start <= now
                      /\ (IsDone(t) => "reason" \notin DOMAIN task[t].ret)

\* the message after maxRequests accepted ones was rejected with the rate-limit reply
C5_Witness ==
    \E t \in Tasks :
        /\ IsDone(t) /\ IsCustomerMessage(t)
        /\ customerRows(task[t].msg.chatId) = maxRequests
        /\ task[t].ret = [processed |-> FALSE, reason |-> "Rate limit exceeded"]
        /\ task[t].sent = <<[to |-> task[t].msg.chatId, text |-> RATE_LIMIT_REPLY]>>

\* the task has passed checkRateLimit by incrementing the count it read
PassedByIncrement(t) ==
    /\ IsCustomerMessage(t)
    /\ task[t].decision = "increment"
    /\ task[t].pc \notin {"rl_select", "rl_write"}

\* C6: the check and the increment of checkRateLimit are separate steps on the count
\* the task read: a message passes when the count it read is below maxRequests, and
\* its write stores that count plus one whatever the store holds by then, so two
\* messages that read the same count both pass and both write the same value
C6_Theorem ==
    [][\A t \in Tasks :
          (IsCustomerMessage(t) /\ task'[t].pc # task[t].pc) =>
              LET c == task[t].msg.chatId
              IN /\ (task[t].pc = "rl_select" /\ rate_limits[c] # NULL
                        /\ rate_limits[c].window_start >= task[t].windowStart) =>
                        /\ task'[t].rl = rate_limits[c]
                        /\ (task'[t].pc = "rl_write") = (rate_limits[c].message_count < maxRequests)
                 /\ (task[t].pc = "rl_write" /\ task[t].decision = "increment") =>
                        /\ rate_limits'[c].message_count = task[t].rl.message_count + 1
                        /\ task'[t].pc = "conv_select"]_vars

\* three messages of the chat were accepted, two of them after reading the same
\* count N and writing N+1, and the counter is one lower than the number accepted
C6_Witness ==
    \E t, u \in Tasks :
        /\ t # u
        /\ PassedByIncrement(t) /\ PassedByIncrement(u)
        /\ IsDone(t) /\ IsDone(u)
        /\ task[t].ret.processed /\ task[u].ret.processed
        /\ task[t].msg.chatId = task[u].msg.chatId
        /\ task[t].rl = task[u].rl
        /\ rate_limits[task[t].msg.chatId].message_count = task[t].rl.message_count + 1
        /\ customerRows(task[t].msg.chatId) = rate_limits[task[t].msg.chatId].message_count + 1

\* C7 as stated: no chat has two handoff requests in status pending, assigned or
\* in_progress
C7_AtMostOneActive ==
    \A c \in ChatIds : Cardinality(activeHandoffs(handoff_queue, c)) <= 1

conversationRows(convs, chatId) == {i \in DOMAIN convs : convs[i].chat_id = chatId}

\* the task handles a message that passed the rate limit and is past getOrCreateConversation
PastConversationStep(t) ==
    /\ task[t].op = "message"
    /\ task[t].msg # NULL
    /\ \/ task[t].conv # NULL
       \/ task[t].pc = "catch_send"
       \/ (IsDone(t) /\ task[t].decision # "reject")

\* C8: there is never more than one conversation per chat id, and exactly one for the
\* chat of every message handled past the rate limit; a message works on the stored
\* record; a record is created with status active, only when the chat has none, and
\* records keep their id and chat id
C8_Theorem ==
    /\ [](/\ \A c \in ChatIds : Cardinality(conversationRows(conversations, c)) <= 1
          /\ \A i \in DOMAIN messages :
                Cardinality(conversationRows(conversations, messages[i].chat_id)) = 1
          /\ \A t \in Tasks :
                PastConversationStep(t) =>
                    /\ Cardinality(conversationRows(conversations, task[t].msg.chatId)) = 1
                    /\ (task[t].conv # NULL =>
                           getConversation(conversations, task[t].msg.chatId).id = task[t].conv.id))
    /\ [][/\ \A i \in DOMAIN conversations :
                /\ i \in DOMAIN conversations'
                /\ conversations'[i].id = conversations[i].id
                /\ conversations'[i].chat_id = conversations[i].chat_id
          /\ \A i \in DOMAIN conversations' :
                i \notin DOMAIN conversations =>
                    /\ conversations'[i].status = "active"
                    /\ conversationRows(conversations, conversations'[i].chat_id) = {}]_vars

\* two first messages of a chat raced: one insert was refused and one record exists
C8_Witness ==
    \E t, u \in Tasks :
        /\ t # u
        /\ task[t].pc = "catch_send"
        /\ task[u].conv # NULL
        /\ task[u].msg.chatId = task[t].msg.chatId
        /\ Cardinality(conversationRows(conversations, task[t].msg.chatId)) = 1

\* initiateHandoff has returned its success object to its caller
InitiateHandoffReturned(t) ==
    \/ IsDone(t) /\ task[t].ret = HandoffResult(task[t].handoffId)
    \/ /\ task[t].pc = "reply_send"
       /\ task[t].caller = "handleConfirmation"
       /\ task[t].response = objectAsText(HandoffResult(task[t].handoffId))

\* C9: when initiateHandoff has returned success, the handoff request it created
\* is pending with the given reason and priority for the chat, the conversation is in
\* human_handoff, the operator was sent the notification and the customer the
\* acknowledgment; the request is a new row of the queue
C9_Theorem ==
    /\ [](\A t \in Tasks :
            InitiateHandoffReturned(t) =>
                LET m == task[t].msg
                    h == getById(handoff_queue, task[t].handoffId)
                IN /\ h # NULL
                   /\ h.status = "pending"
                   /\ h.chat_id = m.chatId
                   /\ h.reason = task[t].reason
                   /\ h.priority = task[t].priority
                   /\ storedStatus(m.chatId) = "human_handoff"
                   /\ task[t].sent =
                        <<[to |-> ADMIN_CHAT,
                           text |-> <<"HUMAN HANDOFF REQUEST", task[t].priority, m.phoneNumber,
                                      task[t].reason, task[t].handoffId>>],
                          [to |-> m.chatId, text |-> buildHandoffResponse]>>)
    /\ [][\A t \in Tasks :
            (task[t].pc = "ch_insert" /\ task'[t].pc # task[t].pc) =>
                /\ Len(handoff_queue') = Len(handoff_queue) + 1
                /\ getById(handoff_queue, task'[t].handoffId) = NULL
                /\ \A i \in DOMAIN handoff_queue : handoff_queue'[i] = handoff_queue[i]]_vars

\* a customer who asked for an agent has a pending request and is in human_handoff
C9_Witness ==
    \E t \in Tasks :
        /\ IsDone(t)
        /\ task[t].ret = HandoffResult(task[t].handoffId)
        /\ task[t].reason # "null"
        /\ getById(handoff_queue, task[t].handoffId).status = "pending"
        /\ storedStatus(task[t].msg.chatId) = "human_handoff"

\* the task is a call of handoffHandler.resumeAI, by the admin route or the command
IsResumeCall(t) ==
    \/ task[t].op = "resume-ai"
    \/ (AdminCommandOf(t) # NULL /\ AdminCommandOf(t).action = "resume_ai")

Classified(t) ==
    /\ task[t].op = "classifyIntent"
    /\ task[t].pc # "classify"

\* the intents of the pattern table of which a pattern matches the text
matchedIntents(text) ==
    {PatternOrder[k] : k \in {j \in DOMAIN PatternOrder : firstPattern(PatternOrder[j], text) # 0}}

\* C11 as stated: whatever the text, the empty body of a media-only message
\* included, a message with an attachment is classified PAYMENT_CONFIRMATION with
\* confidence 0.85 and metadata {hasMedia: true}
C11_MediaIsPayment ==
    \A t \in Tasks :
        (Classified(t) /\ task[t].msg.hasMedia) =>
            /\ task[t].cls.intent = "PAYMENT_CONFIRMATION"
            /\ task[t].cls.confidence = 85
            /\ task[t].cls.metadata.keys = {"hasMedia"}
            /\ task[t].cls.metadata.hasMedia

\* C12 as stated: a text without attachment that matches a pattern of the
\* FRUSTRATION wordlist is classified HUMAN_REQUEST with confidence 0.9 and
\* metadata.frustrated = true, whatever other intents match
C12_FrustrationEscalates ==
    \A t \in Tasks :
        (Classified(t) /\ ~task[t].msg.hasMedia
            /\ "FRUSTRATION" \in matchedIntents(cleanText(task[t].msg.body))) =>
            /\ task[t].cls.intent = "HUMAN_REQUEST"
            /\ task[t].cls.confidence = 90
            /\ task[t].cls.metadata.frustrated

\* C13 as stated: a text without attachment that matches no intent pattern and
\* contains the name of a service is classified SERVICE_INQUIRY with confidence 0.8
\* and the id and name of that service in the metadata
C13_ServiceUpgrade ==
    \A t \in Tasks :
        LET clean == cleanText(task[t].msg.body)
            sm == serviceMatchOf(clean)
        IN (Classified(t) /\ ~task[t].msg.hasMedia /\ matchedIntents(clean) = {} /\ sm # 0) =>
               /\ task[t].cls.intent = "SERVICE_INQUIRY"
               /\ task[t].cls.confidence = 80
               /\ task[t].cls.metadata.serviceId = SERVICE_PATTERNS[sm].id
               /\ task[t].cls.metadata.serviceName = SERVICE_PATTERNS[sm].name

PriceScenario == <<"mujhe", "is", "package", "ka", "price", "batao">>

\* C14 as stated: "mujhe is package ka price batao" without attachment is
\* classified PRICING_INQUIRY with confidence 0.7
C14_Original ==
    \A t \in Tasks :
        (Classified(t) /\ ~task[t].msg.hasMedia /\ task[t].msg.body = PriceScenario) =>
            /\ task[t].cls.intent = "PRICING_INQUIRY"
            /\ task[t].cls.confidence = 70

\* C14 (amended): "mujhe is package ka price batao" (31 characters, no attachment)
\* matches SERVICE_INQUIRY and PRICING_INQUIRY and is classified SERVICE_INQUIRY
\* with confidence 0.75, the value for a service match longer than 30 characters
C14_Theorem ==
    \A t \in Tasks :
        (Classified(t) /\ ~task[t].msg.hasMedia /\ task[t].msg.body = PriceScenario) =>
            /\ textLength(cleanText(task[t].msg.body)) = 31
            /\ task[t].cls.intent = "SERVICE_INQUIRY"
            /\ task[t].cls.confidence = 75
            /\ task[t].cls.metadata.allMatches = <<"SERVICE_INQUIRY", "PRICING_INQUIRY">>

C14_Witness ==
    \E t \in Tasks :
        /\ Classified(t) /\ ~task[t].msg.hasMedia /\ task[t].msg.body = PriceScenario
        /\ task[t].cls.intent = "SERVICE_INQUIRY"

\* the confidence table of the claim, for a normalized text of len characters
ConfidenceTable(intent, len) ==
    CASE intent = "GREETING" -> IF len < 20 THEN 95 ELSE 70
      [] intent = "HUMAN_REQUEST" -> 95
      [] intent = "FRUSTRATION" -> 90
      [] intent = "PAYMENT_CONFIRMATION" -> 85
      [] intent = "SERVICE_INQUIRY" -> IF len > 30 THEN 75 ELSE 70
      [] OTHER -> 70

\* position of the intent in the enumeration order of the pattern table
positionOf(intent) == CHOOSE k \in DOMAIN PatternOrder : PatternOrder[k] = intent

\* C15: when intents match, the matches are ranked by the confidence of the fixed
\* table, equal confidences in the order of the pattern table; the winner is the
\* first of that ranking and the result carries the winner's confidence
C15_Theorem ==
    \A t \in Tasks :
        LET clean == cleanText(task[t].msg.body)
            len == textLength(clean)
            matched == matchedIntents(clean)
            all == task[t].cls.metadata.allMatches
            winner == task[t].cls.metadata.matchedPattern[1]
        IN (Classified(t) /\ ~task[t].msg.hasMedia /\ matched # {}) =>
               /\ {all[i] : i \in DOMAIN all} = matched
               /\ Len(all) = Cardinality(matched)
               /\ winner = all[1]
               /\ \A m \in matched :
                     \/ ConfidenceTable(m, len) < ConfidenceTable(winner, len)
                     \/ /\ ConfidenceTable(m, len) = ConfidenceTable(winner, len)
                        /\ positionOf(winner) <= positionOf(m)
               /\ \A i, j \in DOMAIN all :
                     i < j =>
                        \/ ConfidenceTable(all[i], len) > ConfidenceTable(all[j], len)
                        \/ /\ ConfidenceTable(all[i], len) = ConfidenceTable(all[j], len)
                           /\ positionOf(all[i]) < positionOf(all[j])
               /\ task[t].cls.confidence = ConfidenceTable(winner, len)
               /\ task[t].cls.intent = (IF winner = "FRUSTRATION" THEN "HUMAN_REQUEST" ELSE winner)

\* a text of 30 characters matches SERVICE_INQUIRY and PRICING_INQUIRY, both at 0.7,
\* and the earlier intent of the table wins
C15_Witness ==
    \E t \in Tasks :
        /\ Classified(t) /\ ~task[t].msg.hasMedia
        /\ textLength(cleanText(task[t].msg.body)) = 30
        /\ task[t].cls.metadata.allMatches = <<"SERVICE_INQUIRY", "PRICING_INQUIRY">>
        /\ task[t].cls.intent = "SERVICE_INQUIRY"
        /\ task[t].cls.confidence = 70

\* C16: shouldHandoff returns handoff with priority high exactly for HUMAN_REQUEST
\* with metadata.frustrated, handoff with priority normal for HUMAN_REQUEST without
\* frustration and for OUT_OF_SCOPE, and no handoff, reason and priority null, for
\* every other intent
C16_Theorem ==
    \A t \in Tasks :
        (IsDone(t) /\ task[t].op \in {"classifyIntent", "shouldHandoff"}) =>
            LET c == task[t].cls
                r == task[t].ret
            IN /\ (r.handoff /\ r.priority = "high")
                     <=> (c.intent = "HUMAN_REQUEST" /\ c.metadata.frustrated)
               /\ ((c.intent = "HUMAN_REQUEST" /\ ~c.metadata.frustrated)
                        \/ c.intent = "OUT_OF_SCOPE")
                     => (r.handoff /\ r.priority = "normal")
               /\ c.intent \notin {"HUMAN_REQUEST", "OUT_OF_SCOPE"}
                     => r = [handoff |-> FALSE, reason |-> "null", priority |-> "null"]

\* a text of the frustration wordlist was classified and the decision is a handoff
\* of priority high
C16_Witness ==
    \E t \in Tasks :
        /\ IsDone(t) /\ task[t].op = "classifyIntent"
        /\ task[t].cls.intent = "HUMAN_REQUEST" /\ task[t].cls.metadata.frustrated
        /\ task[t].ret.handoff /\ task[t].ret.priority = "high"

\* the task handles a message of the operator that begins with '/' and passed the
\* rate limit
IsAdminSlashMessage(t) ==
    /\ task[t].op = "message"
    /\ task[t].msg # NULL
    /\ task[t].msg.phoneNumber = ADMIN_PHONE
    /\ task[t].msg.body # <<>>
    /\ startsWithSlash(task[t].msg.body[1])
    /\ task[t].decision # "reject"

\* the message of the task is a row of the messages table
Persisted(t) ==
    \E i \in DOMAIN messages :
        /\ messages[i].chat_id = task[t].msg.chatId
        /\ messages[i].sender = "customer"
        /\ messages[i].message = task[t].msg.body

\* C17 as stated: a message of the operator that begins with '/' and is no admin
\* command is answered with an error reply and never classified, persisted or
\* handled as a customer message; a recognized command is handled as a command
C17_AdminSlash ==
    \A t \in Tasks :
        (IsDone(t) /\ IsAdminSlashMessage(t)) =>
            /\ task[t].cls = NULL
            /\ task[t].calls = {"handleAdminCommand"}
            /\ ~Persisted(t)
            /\ parseAdminCommand(task[t].msg.body) = NULL =>
                  /\ Len(task[t].sent) = 1
                  /\ task[t].sent[1].to = task[t].msg.chatId

paymentRows(pays, chatId) == {i \in DOMAIN pays : pays[i].chat_id = chatId}

\* messages of the chat saved with intent PAYMENT_CONFIRMATION
confirmationRows(chatId) ==
    {i \in DOMAIN messages : /\ messages[i].chat_id = chatId
                             /\ messages[i].sender = "customer"
                             /\ messages[i].intent = "PAYMENT_CONFIRMATION"}

\* the task handles a PAYMENT_CONFIRMATION in active mode
IsPaymentConfirmation(t) ==
    /\ IsCustomerMessage(t)
    /\ task[t].cls # NULL
    /\ task[t].cls.intent = "PAYMENT_CONFIRMATION"

\* C18: every PAYMENT_CONFIRMATION handled in active mode adds one Payment, pending,
\* with amount and method unknown and only the presence of a screenshot recorded;
\* a chat has as many Payment records as PAYMENT_CONFIRMATION messages were handled,
\* whatever payments it already has
C18_Theorem ==
    /\ [](\A t \in Tasks :
            IsPaymentConfirmation(t) =>
                LET c == task[t].msg.chatId
                    handled == Cardinality(confirmationRows(c))
                    created == Cardinality(paymentRows(payments, c))
                IN /\ task[t].pc \in {"history", "cp_select", "cp_insert"} => created = handled - 1
                   /\ task[t].pc \in {"cp_sheet", "np_notify", "reply_send", "reply_save", "done"} =>
                         /\ created = handled
                         /\ getById(payments, task[t].arg) # NULL
                         /\ getById(payments, task[t].arg).chat_id = c)
    /\ [][\A t \in Tasks :
            (IsPaymentConfirmation(t) /\ task[t].pc = "cp_insert" /\ task'[t].pc # task[t].pc) =>
                /\ Len(payments') = Len(payments) + 1
                /\ \A i \in DOMAIN payments : payments'[i] = payments[i]
                /\ LET new == payments'[Len(payments')]
                   IN /\ new.status = "pending"
                      /\ new.chat_id = task[t].msg.chatId
                      /\ new.phone_number = task[t].msg.phoneNumber
                      /\ new.amount = "null"
                      /\ new.payment_method = "null"
                      /\ (new.screenshot_url # "null") = task[t].msg.hasMedia
                      /\ getById(payments, new.id) = NULL]_vars

\* two successive payment confirmations of a chat, one with a screenshot, have left
\* two pending payments
C18_Witness ==
    \E t \in Tasks :
        /\ IsDone(t) /\ IsPaymentConfirmation(t)
        /\ Cardinality({i \in paymentRows(payments, task[t].msg.chatId) :
                           payments[i].status = "pending"}) = 2
        /\ \E i \in DOMAIN payments : payments[i].screenshot_url # "null"

\* C19: rejectPayment.  No payment of that id: failure "not found", the store
\* unchanged.  Otherwise, whatever the status of the payment, the status becomes
\* rejected and the reason is recorded, the customer and the operator are sent a
\* message and the call returns success.
C19_Theorem ==
    [][\A t \in Tasks :
          LET before == getById(payments, task[t].arg)
              after == getById(payments', task[t].arg)
              moved == task'[t].pc # task[t].pc
          IN /\ (task[t].pc = "rj_select" /\ moved) =>
                    /\ store' = store
                    /\ task'[t].pc = (IF before = NULL THEN "rj_notfound" ELSE "rj_update")
             /\ (task[t].pc = "rj_notfound" /\ moved) =>
                    /\ store' = store
                    /\ before = NULL
                    /\ task'[t].pc = "done"
                    /\ task'[t].ret = [success |-> FALSE, error |-> "Payment not found"]
             /\ (task[t].pc = "rj_update" /\ moved) =>
                    /\ before.status \in {"pending", "approved", "rejected"}
                    /\ after.status = "rejected"
                    /\ after.rejection_reason = task[t].arg2
                    /\ \A i \in DOMAIN payments :
                          payments[i].id # task[t].arg => payments'[i] = payments[i]
             /\ (task[t].pc = "rj_admin" /\ moved) =>
                    /\ after.status = "rejected"
                    /\ task'[t].pc = "done"
                    /\ task'[t].ret = [success |-> TRUE, paymentId |-> task[t].arg]
                    /\ \E i, j \in DOMAIN task'[t].sent :
                          /\ i < j
                          /\ task'[t].sent[i] =
                                [to |-> before.chat_id,
                                 text |-> buildPaymentRejectedResponse(task[t].arg2)]
                          /\ task'[t].sent[j].to = ADMIN_CHAT]_vars

\* a payment that had been approved was rejected, successfully
C19_Witness ==
    \E t \in Tasks :
        /\ IsDone(t)
        /\ task[t].ret = [success |-> TRUE, paymentId |-> task[t].arg]
        /\ task[t].row # NULL
        /\ task[t].row.status = "approved"
        /\ getById(payments, task[t].arg).status = "rejected"
        /\ getById(payments, task[t].arg).rejection_reason = task[t].arg2

\* the rows of the table other than those with the id are the same in both
sameExcept(old, new, id) ==
    /\ DOMAIN new = DOMAIN old
    /\ \A i \in DOMAIN old : old[i].id # id => new[i] = old[i]

\* C20: assignHandoff changes the target request only (status assigned, assignee
\* set) and no conversation or other record; resolveHandoff sets the conversation of
\* the target request to active and the target request to resolved, and nothing else
C20_Theorem ==
    [][\A t \in Tasks :
          LET moved == task'[t].pc # task[t].pc
              id == task[t].arg
          IN /\ (task[t].pc = "as_update" /\ moved) =>
                    /\ UNCHANGED <<conversations, messages, payments, rate_limits>>
                    /\ sameExcept(handoff_queue, handoff_queue', id)
                    /\ \A i \in DOMAIN handoff_queue :
                          handoff_queue[i].id = id =>
                              handoff_queue'[i] = [handoff_queue[i] EXCEPT !.status = "assigned",
                                                                          !.assigned_to = task[t].by]
             /\ (task[t].pc \in {"as_send", "rs_select", "rs_send"} /\ moved) => store' = store
             /\ (task[t].pc = "rs_select" /\ moved) =>
                    task'[t].pc = (IF getById(handoff_queue, id) = NULL THEN "rs_update"
                                   ELSE "rs_status")
             /\ (task[t].pc = "rs_status" /\ moved) =>
                    /\ UNCHANGED <<handoff_queue, messages, payments, rate_limits>>
                    /\ DOMAIN conversations' = DOMAIN conversations
                    /\ \A i \in DOMAIN conversations :
                          IF conversations[i].chat_id = getById(handoff_queue, id).chat_id
                          THEN /\ conversations'[i].status = "active"
                               /\ conversations'[i].id = conversations[i].id
                               /\ conversations'[i].chat_id = conversations[i].chat_id
                          ELSE conversations'[i] = conversations[i]
             /\ (task[t].pc = "rs_update" /\ moved) =>
                    /\ UNCHANGED <<conversations, messages, payments, rate_limits>>
                    /\ sameExcept(handoff_queue, handoff_queue', id)
                    /\ \A i \in DOMAIN handoff_queue :
                          handoff_queue[i].id = id =>
                              handoff_queue'[i] =
                                  [handoff_queue[i] EXCEPT !.status = "resolved",
                                                           !.resolution_notes = task[t].arg2]]_vars

\* a request that had been assigned was resolved and its conversation, which was
\* handed off, is active
C20_Witness ==
    \E t \in Tasks :
        /\ IsDone(t) /\ task[t].op = "resolve-handoff"
        /\ task[t].row # NULL
        /\ task[t].row.status = "assigned"
        /\ getById(handoff_queue, task[t].arg).status = "resolved"
        /\ getById(handoff_queue, task[t].arg).assigned_to # "null"
        /\ storedStatus(task[t].row.chat_id) = "active"

\* the request of the task names a record that does not exist: no handoff request of
\* that id (assign, resolve), no conversation of that chat (resume)
TargetMissing(t) ==
    CASE task[t].pc \in {"as_send", "rs_send"} -> getById(handoff_queue, task[t].arg) = NULL
      [] task[t].pc = "ra_admin" -> getConversation(conversations, task[t].arg) = NULL
      [] OTHER -> FALSE

\* C21 as stated: assignHandoff and resolveHandoff with the id of no handoff request,
\* and resumeAI with the chat of no conversation, return success = false and send no
\* success notification
C21_NotFoundSurfaced ==
    [][\A t \in Tasks :
          (TargetMissing(t) /\ task'[t].pc = "done") =>
              /\ task'[t].ret.success = FALSE
              /\ task'[t].sent = task[t].sent
              /\ store' = store]_vars

\* C25 as stated: on every path the value handleIncomingMessage returns carries a
\* boolean field processed
C25_ProcessedField ==
    \A t \in Tasks :
        (IsDone(t) /\ task[t].op = "message") =>
            /\ "processed" \in DOMAIN task[t].ret
            /\ task[t].ret.processed \in BOOLEAN

\* the customer of the task was sent the text
CustomerWasSent(t, text) ==
    \E i \in DOMAIN task[t].sent : task[t].sent[i] = [to |-> task[t].msg.chatId, text |-> text]

\* the spreadsheet write or the notification of the operator failed in the task
AuditFailed(t) == task[t].sheet = "failed" \/ task[t].failed # {}

\* C22: when the spreadsheet write or the notification of the operator fails while a
\* payment or a handoff is initiated, the Payment or Handoff record is in the store
\* all the same and the customer is sent the payment-received or the
\* handoff-acknowledgment reply
C22_Theorem ==
    \A t \in Tasks :
        (IsDone(t) /\ IsCustomerMessage(t) /\ AuditFailed(t)) =>
            IF task[t].handoffId # "null"
            THEN /\ getById(handoff_queue, task[t].handoffId) # NULL
                 /\ getById(handoff_queue, task[t].handoffId).chat_id = task[t].msg.chatId
                 /\ CustomerWasSent(t, buildHandoffResponse)
            ELSE /\ getById(payments, task[t].arg) # NULL
                 /\ getById(payments, task[t].arg).chat_id = task[t].msg.chatId
                 /\ getById(payments, task[t].arg).status = "pending"
                 /\ CustomerWasSent(t, buildPaymentReceivedResponse)

\* a payment was initiated while both the spreadsheet and the notification failed
C22_Witness ==
    \E t \in Tasks :
        /\ IsDone(t) /\ IsCustomerMessage(t)
        /\ task[t].sheet = "failed" /\ task[t].failed # {}
        /\ task[t].cls.intent = "PAYMENT_CONFIRMATION"
        /\ getById(payments, task[t].arg) # NULL
        /\ CustomerWasSent(t, buildPaymentReceivedResponse)

\* C23 as stated: whenever the handling of a customer message fails on the reply path
\* (a store call throws, every generation provider fails, the handoff record cannot
\* be created) the customer is sent the canned error message
C23_FallbackReply ==
    \A t \in Tasks :
        (IsDone(t) /\ IsCustomerMessage(t) /\ task[t].failure # "null") =>
            CustomerWasSent(t, buildErrorResponse)

BotRow(t) ==
    [conversation_id |-> task[t].conv.id, chat_id |-> task[t].msg.chatId, sender |-> "bot",
     message |-> task[t].response, message_type |-> "text", intent |-> task[t].cls.intent]

\* the row saveMessage adds for the message of the task
InboundRow(t) ==
    [conversation_id |-> task[t].conv.id, chat_id |-> task[t].msg.chatId,
     sender |-> "customer", message |-> task[t].msg.body,
     message_type |-> mediaTypeOf(task[t].msg), intent |-> task[t].cls.intent]

\* C26 as stated, its last part: when the reply is dispatched to the customer the
\* outbound bot message has been persisted
C26_Original ==
    [][\A t \in Tasks :
          (task[t].op = "message" /\ task[t].pc = "reply_send" /\ task'[t].pc # task[t].pc) =>
              /\ Len(messages) > 0
              /\ messages[Len(messages)] = BotRow(t)]_vars

\* C26, amended: the steps of handling one active-mode message occur in the order
\* rate-limit check, conversation lookup/creation, admin-command check, status
\* branch, classification and persistence of the inbound message, handoff-policy
\* check, response generation, reply dispatch, persistence of the outbound bot
\* message: the reply is dispatched before the outbound message is persisted
C26_Theorem ==
    [][\A t \in Tasks :
          (task[t].op = "message" /\ task'[t].pc # task[t].pc) =>
              LET r == task[t]
                  r2 == task'[t]
              IN /\ r.pc \in {"rl_select", "rl_write"} =>
                       /\ r.conv = NULL /\ r.cls = NULL /\ r.sent = <<>>
                       /\ UNCHANGED <<conversations, messages>>
                 /\ r.pc \in {"conv_select", "conv_insert"} =>
                       /\ r.decision \in {"insert", "reset", "increment"}
                       /\ r.conv = NULL /\ r.cls = NULL /\ r.sent = <<>>
                       /\ UNCHANGED messages
                       /\ r2.conv # NULL => r2 = route(r.msg, r2.conv) @@ r
                 /\ r.pc = "in_save" =>
                       /\ r.conv # NULL /\ r.conv.status # "human_handoff"
                       /\ r.cls = classifyIntent(r.msg.body, r.msg.hasMedia)
                       /\ r.response = <<>> /\ r.sent = <<>>
                       /\ messages' = Append(messages, InboundRow(t))
                       /\ r2.pc = (IF shouldHandoff(r.cls).handoff THEN "ch_select" ELSE "history")
                 /\ r2.response # r.response =>
                       /\ r.pc \notin {"rl_select", "rl_write", "conv_select", "conv_insert",
                                       "in_save", "reply_send", "reply_save"}
                       /\ \E i \in DOMAIN messages : messages[i] = InboundRow(t)
                       /\ ~CustomerWasSent(t, r2.response)
                 /\ r.pc = "reply_send" =>
                       /\ r.response # <<>>
                       /\ r2.sent = Append(r.sent, [to |-> r.msg.chatId, text |-> r.response])
                       /\ UNCHANGED messages
                       /\ r2.pc = "reply_save"
                 /\ r.pc = "reply_save" =>
                       /\ CustomerWasSent(t, r.response)
                       /\ messages' = Append(messages, BotRow(t))
                       /\ r2.pc = "done"]_vars

\* a message was classified, answered by the generative backend, and the answer was
\* sent and saved
C26_Witness ==
    \E t \in Tasks :
        /\ IsDone(t) /\ IsCustomerMessage(t)
        /\ task[t].calls = {"classifyIntent", "processIntent"}
        /\ task[t].response \in AIReplies
        /\ CustomerWasSent(t, task[t].response)
        /\ messages[Len(messages)] = BotRow(t)
        /\ task[t].ret.processed

\* the intent of the match that wins: the first of the matches sorted by confidence
winningMatch(text) == sortMatches(collectMatches(text, 1))[1].intent

\* C27: classifyIntent never returns FRUSTRATION; when FRUSTRATION is the winning
\* match the result is HUMAN_REQUEST with confidence 0.9 and metadata.frustrated
C27_Theorem ==
    \A t \in Tasks :
        Classified(t) =>
            /\ task[t].cls.intent # "FRUSTRATION"
            /\ LET text == cleanText(task[t].msg.body)
               IN (/\ ~task[t].msg.hasMedia
                   /\ matchedIntents(text) # {}
                   /\ winningMatch(text) = "FRUSTRATION") =>
                      /\ task[t].cls.intent = "HUMAN_REQUEST"
                      /\ task[t].cls.confidence = 90
                      /\ task[t].cls.metadata.frustrated

\* a text whose winning match is FRUSTRATION, with another intent matching as well
C27_Witness ==
    \E t \in Tasks :
        /\ Classified(t) /\ ~task[t].msg.hasMedia
        /\ {"FRUSTRATION", "SERVICE_INQUIRY"} \subseteq matchedIntents(cleanText(task[t].msg.body))
        /\ winningMatch(cleanText(task[t].msg.body)) = "FRUSTRATION"
        /\ task[t].cls.intent = "HUMAN_REQUEST"
        /\ task[t].cls.metadata.frustrated

\* the text matches a pattern of GREETING
IsGreeting(text) == firstPattern("GREETING", text) # 0

\* C28: a message without attachment whose normalized text matches a greeting
\* pattern and is shorter than 20 characters is classified GREETING with confidence
\* 0.95
C28_Theorem ==
    \A t \in Tasks :
        LET text == cleanText(task[t].msg.body)
        IN (Classified(t) /\ ~task[t].msg.hasMedia /\ IsGreeting(text) /\ textLength(text) < 20) =>
               /\ task[t].cls.intent = "GREETING"
               /\ task[t].cls.confidence = 95

\* a greeting of 10 to 19 characters, classified GREETING 0.95
C28_Witness ==
    \E t \in Tasks :
        LET text == cleanText(task[t].msg.body)
        IN /\ Classified(t) /\ ~task[t].msg.hasMedia
           /\ IsGreeting(text)
           /\ textLength(text) \in 10..19
           /\ task[t].cls.intent = "GREETING"
           /\ task[t].cls.confidence = 95

C30_Theorem ==
    /\ \A t, u \in Tasks :
          (/\ Classified(t) /\ Classified(u)
           /\ task[t].msg.body = task[u].msg.body
           /\ task[t].msg.hasMedia = task[u].msg.hasMedia) =>
              /\ task[t].cls.intent = task[u].cls.intent
              /\ task[t].cls.confidence = task[u].cls.confidence
              /\ task[t].cls.metadata = task[u].cls.metadata
    /\ \A id \in PatternIds : lastIndex[id] = 0

\* the first and the third call were given the same text, which a searched pattern
\* matches, and both have returned
C30_Witness ==
    \E t, u \in Tasks :
        /\ Classified(t) /\ Classified(u)
        /\ task[t].call + 2 <= task[u].call
        /\ task[t].msg.body = task[u].msg.body
        /\ ~task[t].msg.hasMedia /\ ~task[u].msg.hasMedia
        /\ task[t].cls.intent = "PRICING_INQUIRY"
        /\ task[u].cls = task[t].cls

\* the most recent row a sender has in a sequence of message rows, NULL if none
lastRowOf(rows, sender) ==
    LET own == SelectSeq(rows, LAMBDA r : r.sender = sender)
    IN IF Len(own) = 0 THEN NULL ELSE own[Len(own)]

\* the step in which processIntent fetches the history and dispatches on a CONFIRMATION
IsConfirmationStep(t) ==
    /\ task[t].pc = "history"
    /\ task'[t].pc # "history"
    /\ task[t].cls.intent = "CONFIRMATION"

\* C31: in active mode a CONFIRMATION whose preceding bot message contains 'connect'
\* or 'team' goes to initiateHandoff with priority normal, and the request it creates
\* is pending with priority normal while the conversation is human_handoff
C31_ConfirmationHandoff ==
    [][\A t \in Tasks :
          /\ IsConfirmationStep(t) =>
                LET preceding == lastRowOf(rowsOfChat(messages, task[t].msg.chatId), "bot")
                IN (/\ preceding # NULL
                    /\ \/ includes(preceding.message, "connect")
                       \/ includes(preceding.message, "team")) =>
                       /\ task'[t].pc = "ch_select"
                       /\ task'[t].priority = "normal"
          /\ (/\ task[t].pc = "ch_insert" /\ task'[t].pc # "ch_insert"
              /\ task[t].caller = "handleConfirmation") =>
                 /\ Len(handoff_queue') = Len(handoff_queue) + 1
                 /\ handoff_queue'[Len(handoff_queue')].priority = "normal"
                 /\ handoff_queue'[Len(handoff_queue')].chat_id = task[t].msg.chatId
                 /\ getConversation(conversations', task[t].msg.chatId).status
                       = "human_handoff"]_vars

\* C32: on a CONFIRMATION the bot message handleConfirmation inspects is the most
\* recent bot message the conversation holds, however long the conversation is
C32_MostRecentBotMessage ==
    [][\A t \in Tasks :
          IsConfirmationStep(t) =>
             lastRowOf(task'[t].history, "bot")
               = lastRowOf(rowsOfChat(messages, task[t].msg.chatId), "bot")]_vars

\* C33: under every interleaving of concurrently handled messages of one chat, the
\* reply of an intent handler is never dispatched to the chat while the stored status
\* of its conversation is human_handoff
C33_NoReplyDuringHandoff ==
    [][\A t \in Tasks :
          (/\ task[t].pc = "reply_send"
           /\ Len(task'[t].sent) = Len(task[t].sent) + 1) =>
              storedStatus(task[t].msg.chatId) # "human_handoff"]_vars

\* the call told the customer of the payment the outcome of the operator's decision
CustomerNotified(t) ==
    /\ task[t].row # NULL
    /\ \E i \in DOMAIN task[t].sent : task[t].sent[i].to = task[t].row.chat_id

ReturnedSuccess(t) == task[t].pc = "done" /\ task[t].ret.success

\* C34: of two concurrent approvePayment calls on the same pending payment, with a
\* store that works, at most one returns success and at most one sends the customer
\* the payment confirmation
C34_SingleApproval ==
    \A t, u \in Tasks :
        (/\ t # u
         /\ task[t].op = "approve-payment" /\ task[u].op = "approve-payment"
         /\ task[t].arg = task[u].arg
         /\ task[t].faults = {} /\ task[u].faults = {}) =>
            /\ ~(ReturnedSuccess(t) /\ ReturnedSuccess(u))
            /\ ~(CustomerNotified(t) /\ CustomerNotified(u))

\* C36: approvePayment and rejectPayment whose update the store refused return a
\* failure and do not notify the customer
C36_UpdateFailureSurfaced ==
    \A t \in Tasks :
        (/\ task[t].op \in {"approve-payment", "reject-payment"}
         /\ task[t].failure \in {"approvePayment", "rejectPayment"}) =>
            /\ ~CustomerNotified(t)
            /\ task[t].pc = "done" => ~task[t].ret.success

\* what the task has dispatched to the chat of the message it handles
repliesTo(t) ==
    SelectSeq(task[t].sent, LAMBDA m : m.to = task[t].msg.chatId)

\* C35: handling one inbound customer message in active mode dispatches at most one
\* reply to that customer, and the reply is a text
C35_OneTextReply ==
    \A t \in Tasks :
        (/\ IsCustomerMessage(t)
         /\ task[t].conv # NULL
         /\ task[t].conv.status = "active") =>
            /\ Len(repliesTo(t)) <= 1
            /\ \A i \in DOMAIN repliesTo(t) : isString(repliesTo(t)[i].text)

\* no request is being handled: every call has returned
Quiescent == \A t \in Tasks : task[t].pc \in {"idle", "done"}

\* C37: whenever the calls made so far have returned, a conversation whose status is
\* active has no handoff request of its chat in status pending, assigned or in_progress
C37_ActiveHasNoOpenHandoff ==
    Quiescent =>
        \A i \in DOMAIN conversations :
            conversations[i].status = "active" =>
                activeHandoffs(handoff_queue, conversations[i].chat_id) = {}

\* C38: whenever the calls made so far have returned, also after a failed insert of a
\* handoff request, a conversation whose status is human_handoff has a handoff
\* request of its chat in status pending, assigned or in_progress, and the operator
\* was notified of it
C38_HandoffHasOpenRequest ==
    Quiescent =>
        \A i \in DOMAIN conversations :
            conversations[i].status = "human_handoff" =>
                \E h \in activeHandoffs(handoff_queue, conversations[i].chat_id) :
                    \A t \in Tasks :
                        (task[t].pc = "done" /\ task[t].handoffId = handoff_queue[h].id) =>
                            task[t].failed = {}

\* C39: a GREETING is answered with the welcome greeting when the conversation held
\* no message before the current one, and with the returning-customer greeting when
\* it did (the current message is the one row InboundSave has added)
C39_WelcomeOnFirstMessage ==
    [][\A t \in Tasks :
          (/\ task[t].pc = "history" /\ task'[t].pc # "history"
           /\ task[t].cls.intent = "GREETING") =>
              LET before == Len(rowsOfChat(messages, task[t].msg.chatId)) - 1
              IN task'[t].response = getGreetingMessage(before > 0)]_vars

\* the task handles a message that checkRateLimit has rejected
IsRateLimited(t) == task[t].op = "message" /\ task[t].decision = "reject"

\* C40: a message rejected by the rate limiter leaves the store unchanged (no
\* conversation, message, payment or handoff row is written, the rate-limit record
\* keeps its count and window start), no handler is called for it, and its only effect
\* is the rate-limit reply to the sender
C40_Theorem ==
    [][\A t \in Tasks :
          (task'[t] # task[t] /\ task'[t].op = "message" /\ task'[t].decision = "reject") =>
              /\ store' = store
              /\ task'[t].calls = {}
              /\ task'[t].conv = NULL
              /\ task'[t].pc = "done" =>
                    /\ task'[t].sent = <<[to |-> task[t].msg.chatId, text |-> RATE_LIMIT_REPLY]>>
                    /\ task'[t].ret = [processed |-> FALSE, reason |-> "Rate limit exceeded"]]_vars

\* the operator's '/approve 1' was rejected by the rate limiter: the command was not
\* executed, the operator got the rate-limit reply and the count stands at the maximum
C40_Witness ==
    \E t \in Tasks :
        /\ IsRateLimited(t) /\ task[t].pc = "done"
        /\ task[t].msg.phoneNumber = ADMIN_PHONE
        /\ parseAdminCommand(task[t].msg.body) # NULL
        /\ parseAdminCommand(task[t].msg.body).action = "approve_payment"
        /\ task[t].sent = <<[to |-> ADMIN_CHAT, text |-> RATE_LIMIT_REPLY]>>
        /\ rate_limits[ADMIN_CHAT].message_count = maxRequests

====
